---- MODULE Spec2Model ----
(***************************************************************************)
(* The orchestration loop of src/agents/langgraph_agent.py (agent_node,    *)
(* tool_node, _route, LangGraphAgent.chat) over the tool registry of       *)
(* src/agent_tools and the query translator of src/tools/postgres_tool.py. *)
(***************************************************************************)
EXTENDS Integers, Sequences, FiniteSets, TLC

VARIABLES
    pc,         \* where the turn is: "idle", "agent", "tools", "TERMINAL", "FAILED"
    messages,   \* AgentState["messages"]
    read_only,  \* AgentState["read_only"]
    step,       \* supersteps the compiled graph has run in this turn
    db,         \* the live schema and rows behind `engine`
    md,         \* pg_tool.md: the tables the MetaData object holds, each with
                \* the column names its Table object has
    invoked,    \* handler invocations of the turn, in order (name and position)
    returned,   \* what chat returned, <<>> while it has not
    raised,     \* the exception chat raised to its caller, "None" while none
    emitted,    \* tool-call requests the model emitted in this turn
    _events,    \* LangGraphAgent._events, what the `events` accessor hands out
    registry,   \* spec._REGISTRY: tool name -> the ToolSpec registered under it
    called,     \* the latest direct call into the registry or the translator
    reflected,  \* per conversation: what its own calls alone would have put
                \* into pg_tool.md
    ws          \* the WebSocket connection websocket_endpoint serves: where the
                \* handler is and what it sent for the latest request

vars == <<pc, messages, read_only, step, db, md, invoked, returned, raised, emitted,
          _events, registry, called, reflected, ws>>

\* what the steps of a turn never touch: the registry, the call records and
\* the connection
aside == <<registry, called, reflected, ws>>

\* ------------------------------------------------------------------ bounds
\* Supersteps one workflow.ainvoke may run before the graph library gives up
\* with GraphRecursionError (the library's recursion limit, scaled down).
MaxSteps == 4
\* Tool-call requests the model emits in one turn.
MaxCalls == 3

\* ------------------------------------------------------------ small helpers
Last(s) == s[Len(s)]

None == "None"

\* Python truthiness of an optional string
Truthy(s) == s # None /\ s # ""

\* prompts and message texts are sequences of one-character strings
IsPrefixAt(k, s, i) ==
    /\ i + Len(k) - 1 <= Len(s)
    /\ \A j \in 1..Len(k) : s[i + j - 1] = k[j]

\* Python's `k in s` on strings
Contains(s, k) == \E i \in 1..(Len(s) + 1) : IsPrefixAt(k, s, i)

LowerChar(c) ==
    CASE c = "A" -> "a"
      [] c = "B" -> "b"
      [] c = "C" -> "c"
      [] c = "D" -> "d"
      [] c = "E" -> "e"
      [] c = "F" -> "f"
      [] c = "G" -> "g"
      [] c = "H" -> "h"
      [] c = "I" -> "i"
      [] c = "J" -> "j"
      [] c = "K" -> "k"
      [] c = "L" -> "l"
      [] c = "M" -> "m"
      [] c = "N" -> "n"
      [] c = "O" -> "o"
      [] c = "P" -> "p"
      [] c = "Q" -> "q"
      [] c = "R" -> "r"
      [] c = "S" -> "s"
      [] c = "T" -> "t"
      [] c = "U" -> "u"
      [] c = "V" -> "v"
      [] c = "W" -> "w"
      [] c = "X" -> "x"
      [] c = "Y" -> "y"
      [] c = "Z" -> "z"
      [] OTHER -> c

\* str.lower()
Lower(s) == [i \in DOMAIN s |-> LowerChar(s[i])]

\* str.startswith
StartsWith(s, k) == IsPrefixAt(k, s, 1)

\* --------------------------------------------------------- Python values
\* A value carries its Python type; arguments and results are built of these.
PStr(s) == [t |-> "str", v |-> s]
PInt(n) == [t |-> "int", v |-> n]
PDict(d) == [t |-> "dict", v |-> d]
PList(l) == [t |-> "list", v |-> l]
PNone == [t |-> "NoneType", v |-> None]

\* bool(x) of a tagged value
PTruthy(x) ==
    CASE x.t = "NoneType" -> FALSE
      [] x.t = "str" -> x.v # ""
      [] x.t = "int" -> x.v # 0
      [] x.t = "dict" -> DOMAIN x.v # {}
      [] x.t = "list" -> Len(x.v) > 0
      [] OTHER -> TRUE

\* d.get(k, default) on a TLA+ function used as a dict
Get(d, k, default) == IF k \in DOMAIN d THEN d[k] ELSE default

EmptyDict == [k \in {} |-> None]

\* An exception: its class and str(exc)
Exc(cls, msg) == [cls |-> cls, msg |-> msg]

NoExc == Exc("None", <<>>)

\* What a call into the translator or a handler comes back with: a result or
\* an exception, and the store as the call left it.
Ok(val, d, m) == [ok |-> TRUE, val |-> val, exc |-> NoExc, db |-> d, md |-> m]

Fail(exc, d, m) == [ok |-> FALSE, val |-> PNone, exc |-> exc, db |-> d, md |-> m]

\* ------------------------------------------------- postgres_tool.py: types
TypeNames ==
    {"integer", "int", "text", "string", "varchar", "float", "double",
     "boolean", "bool", "datetime", "timestamp", "date"}

\* type_name.lower() for the type names the model uses
LowerType(n) == CASE n = "INTEGER" -> "integer" [] n = "Text" -> "text" [] OTHER -> n

SaTypeOk(type_name) == LowerType(type_name) \in TypeNames

SaTypeError(type_name) == Exc("ValueError", <<"Unsupported column type ", type_name>>)

\* Errors of sqlalchemy.exc that __call__ re-raises as RuntimeError(str(exc))
SQLAlchemyErrors ==
    {"InvalidRequestError", "ProgrammingError", "IntegrityError", "CompileError"}

WrapSqlError(exc) ==
    IF exc.cls \in SQLAlchemyErrors THEN Exc("RuntimeError", exc.msg) ELSE exc

\* ------------------------------------------------- the store behind engine
\* db maps each existing table to its columns (in order) and its rows.
Col(name, type, pk, nullable) ==
    [name |-> name, type |-> type, pk |-> pk, nullable |-> nullable]

IdColumn == Col("id", "integer", TRUE, TRUE)

EmptyDb == [n \in {} |-> [cols |-> <<>>, rows |-> <<>>]]

ColNames(tbl) == {tbl.cols[i].name : i \in DOMAIN tbl.cols}

PkNames(tbl) == {tbl.cols[i].name : i \in {j \in DOMAIN tbl.cols : tbl.cols[j].pk}}

WithTable(d, n, tbl) == [x \in DOMAIN d \cup {n} |-> IF x = n THEN tbl ELSE d[x]]

WithoutTable(d, n) == [x \in DOMAIN d \ {n} |-> d[x]]

\* a MetaData without tables
EmptyMd == [n \in {} |-> {}]

\* the MetaData m with the Table object of n holding the columns cols
Known(m, n, cols) == [x \in DOMAIN m \cup {n} |-> IF x = n THEN cols ELSE m[x]]

\* Columns of the Table object of n that the live table does not have. A
\* reflection adds and replaces columns of a Table object the MetaData already
\* holds; it removes none.
Stale(d, m, n) == m[n] \ ColNames(d[n])

\* the database's answer to a statement that names a column the table lacks
UndefinedColumn == Exc("ProgrammingError", <<"column does not exist">>)

\* equality of two tagged values (SQL `col = val` on values of the same type)
ValEq(a, b) == a.t = b.t /\ a.v = b.v

\* ------------------------------------------- postgres_tool.py: schema helpers
\* col.get("type") or col.get("data_type")
ColTypeName(col) ==
    IF PTruthy(Get(col, "type", PNone)) THEN col["type"].v
    ELSE Get(col, "data_type", PNone).v

\* the Column(...) a column spec of create_table declares
DeclaredColumn(col) ==
    Col(col["name"].v,
        LowerType(ColTypeName(col)),
        PTruthy(Get(col, "pk", PNone)) \/ PTruthy(Get(col, "primary_key", PNone)),
        IF "not_null" \in DOMAIN col THEN ~PTruthy(col["not_null"])
        ELSE PTruthy(Get(col, "nullable", PInt(1))))

\* only the first column's type is looked up before the table is declared
FirstBadType_first_only(columns) ==
    IF ~SaTypeOk(ColTypeName(columns[1].v)) THEN 1 ELSE 0

\* the first column spec whose type name _sa_type rejects, 0 when none
FirstBadType(columns) ==
    IF \E i \in DOMAIN columns : ~SaTypeOk(ColTypeName(columns[i].v))
    THEN CHOOSE i \in DOMAIN columns :
            /\ ~SaTypeOk(ColTypeName(columns[i].v))
            /\ \A j \in 1..(i - 1) : SaTypeOk(ColTypeName(columns[j].v))
    ELSE 0

CreateTable(payload, d, m) ==
    LET table_name == payload["table"].v
        given == Get(payload, "columns", PList(<<>>))
        columns == IF PTruthy(given) THEN given.v
                   ELSE <<PDict([name |-> PStr("id"), type |-> PStr("integer"),
                                 pk |-> PInt(1)])>>
        Declare(cols) ==
            IF table_name \in DOMAIN m
            THEN \* Table(name, self.md, ...) on a name the MetaData already holds
                 Fail(Exc("InvalidRequestError",
                          <<"Table '", table_name,
                            "' is already defined for this MetaData instance">>), d, m)
            ELSE Ok(PDict([created |-> PStr(table_name),
                           columns |-> PList([i \in DOMAIN cols |-> PStr(cols[i].name)])]),
                    \* table.create(bind=engine, checkfirst=True)
                    IF table_name \in DOMAIN d THEN d
                    ELSE WithTable(d, table_name, [cols |-> cols, rows |-> <<>>]),
                    Known(m, table_name, {cols[i].name : i \in DOMAIN cols}))
        Then(bad) ==
            IF bad # 0 THEN Fail(SaTypeError(ColTypeName(columns[bad].v)), d, m)
            ELSE Declare([i \in DOMAIN columns |-> DeclaredColumn(columns[i].v)])
    IN  Then(FirstBadType(columns))

\* ALTER TABLE ... ADD COLUMN without IF NOT EXISTS
AddColumn_without_if_not_exists(payload, d, m) ==
    LET tbl_name == payload["table"].v
        given == payload["column"]
        col == IF given.t = "str"
               THEN [name |-> given, type |-> Get(payload, "data_type", PStr("text"))]
               ELSE given.v
        type_name == IF PTruthy(Get(col, "type", PNone)) THEN col["type"].v
                     ELSE Get(col, "data_type", PStr("text")).v
        col_name == col["name"].v
    IN  IF ~SaTypeOk(type_name) THEN Fail(SaTypeError(type_name), d, m)
        ELSE IF tbl_name \notin DOMAIN d
        THEN Fail(Exc("ProgrammingError", <<"relation does not exist">>), d, m)
        ELSE IF col_name \in ColNames(d[tbl_name])
        THEN Fail(Exc("ProgrammingError", <<"column already exists">>), d, m)
        ELSE Ok(PDict([added_column |-> PStr(col_name), table |-> PStr(tbl_name)]),
                WithTable(d, tbl_name,
                        [cols |-> Append(d[tbl_name].cols,
                                         Col(col_name, LowerType(type_name), FALSE, TRUE)),
                         rows |-> [i \in DOMAIN d[tbl_name].rows |->
                                     [c \in DOMAIN d[tbl_name].rows[i] \cup {col_name} |->
                                        IF c = col_name THEN PNone
                                        ELSE d[tbl_name].rows[i][c]]]]),
                m)

AddColumn(payload, d, m) ==
    LET tbl_name == payload["table"].v
        given == payload["column"]
        col == IF given.t = "str"
               THEN [name |-> given, type |-> Get(payload, "data_type", PStr("text"))]
               ELSE given.v
        type_name == IF PTruthy(Get(col, "type", PNone)) THEN col["type"].v
                     ELSE Get(col, "data_type", PStr("text")).v
        col_name == col["name"].v
    IN  IF ~SaTypeOk(type_name) THEN Fail(SaTypeError(type_name), d, m)
        ELSE IF tbl_name \notin DOMAIN d
        THEN Fail(Exc("ProgrammingError", <<"relation does not exist">>), d, m)
        ELSE Ok(PDict([added_column |-> PStr(col_name), table |-> PStr(tbl_name)]),
                \* ALTER TABLE ... ADD COLUMN IF NOT EXISTS
                IF col_name \in ColNames(d[tbl_name]) THEN d
                ELSE WithTable(d, tbl_name,
                        [cols |-> Append(d[tbl_name].cols,
                                         Col(col_name, LowerType(type_name), FALSE, TRUE)),
                         rows |-> [i \in DOMAIN d[tbl_name].rows |->
                                     [c \in DOMAIN d[tbl_name].rows[i] \cup {col_name} |->
                                        IF c = col_name THEN PNone
                                        ELSE d[tbl_name].rows[i][c]]]]),
                m)

DropTable(payload, d, m) ==
    LET tbl == payload["table"].v
    IN  \* DROP TABLE IF EXISTS ... CASCADE; self.md is not told
        Ok(PDict([dropped_table |-> PStr(tbl)]), WithoutTable(d, tbl), m)

\* insp.get_table_names(): the existing tables in name order
TableOrder == <<"t">>

ExistingTables(d) == SelectSeq(TableOrder, LAMBDA n : n \in DOMAIN d)

ListTables(d, m) ==
    LET names == ExistingTables(d)
    IN  Ok(PList([i \in DOMAIN names |->
                    PDict([table |-> PStr(names[i]),
                           rows |-> PInt(Len(d[names[i]].rows))])]),
           d, m)

DescribeTable(payload, d, m) ==
    LET tbl_name == payload["table"].v
    IN  IF tbl_name \notin DOMAIN d
        THEN Fail(Exc("ValueError", <<"Table '", tbl_name, "' does not exist">>), d, m)
        ELSE Ok(PDict([table |-> PStr(tbl_name),
                       columns |-> PList([i \in DOMAIN d[tbl_name].cols |->
                            PDict([name |-> PStr(d[tbl_name].cols[i].name),
                                   type |-> PStr(d[tbl_name].cols[i].type)])])]),
                d, m)

\* -------------------------------------------- postgres_tool.py: data helpers
\* a lookup that creates the table it does not find
GetTable_creates_missing(name, d, m) ==
    Ok(PStr(name),
       IF name \in DOMAIN d THEN d ELSE WithTable(d, name, [cols |-> <<IdColumn>>, rows |-> <<>>]),
       Known(m, name, (IF name \in DOMAIN m THEN m[name] ELSE {})
                      \cup (IF name \in DOMAIN d THEN ColNames(d[name]) ELSE {"id"})))

\* _get_table: reflect the live table; a missing table raises
\* RuntimeError("table_not_found:<name>") and the MetaData is left as it was.
GetTable(name, d, m) ==
    IF name \in DOMAIN d
    THEN Ok(PStr(name), d,
            Known(m, name, (IF name \in DOMAIN m THEN m[name] ELSE {}) \cup ColNames(d[name])))
    ELSE Fail(Exc("RuntimeError", <<"table_not_found:", name>>), d, m)

\* the next value of an auto-increment integer key
NextId(tbl, c) ==
    LET used == {tbl.rows[i][c].v : i \in DOMAIN tbl.rows}
    IN  IF used = {} THEN 1 ELSE 1 + CHOOSE x \in used : \A y \in used : y <= x

\* One INSERT of `values` into tbl: the row stored, or the error the database
\* or the statement compiler answers with.
InsertError(tbl, values) ==
    IF ~(DOMAIN values \subseteq ColNames(tbl))
    THEN Exc("CompileError", <<"Unconsumed column names">>)
    ELSE IF \E c \in PkNames(tbl) \cap DOMAIN values :
               \E i \in DOMAIN tbl.rows : ValEq(tbl.rows[i][c], values[c])
    THEN Exc("IntegrityError", <<"duplicate key value violates unique constraint">>)
    ELSE IF \E i \in DOMAIN tbl.cols :
               /\ ~tbl.cols[i].nullable
               /\ ~tbl.cols[i].pk
               /\ tbl.cols[i].name \notin DOMAIN values
    THEN Exc("IntegrityError", <<"null value violates not-null constraint">>)
    ELSE NoExc

StoredRow(tbl, values) ==
    [c \in ColNames(tbl) |->
        IF c \in DOMAIN values THEN values[c]
        ELSE IF c \in PkNames(tbl) THEN PInt(NextId(tbl, c))
        ELSE PNone]

RECURSIVE InsertAll(_, _, _)
\* the rows of `list` inserted one after the other into tbl, stopping at the
\* first one the database rejects: <<error, table, rows stored>>
InsertAll(tbl, list, k) ==
    LET Then(exc) ==
            IF exc # NoExc THEN [exc |-> exc, tbl |-> tbl, n |-> k - 1]
            ELSE InsertAll([tbl EXCEPT !.rows = Append(@, StoredRow(tbl, list[k].v))],
                           list, k + 1)
    IN  IF k > Len(list) THEN [exc |-> NoExc, tbl |-> tbl, n |-> Len(list)]
        ELSE Then(InsertError(tbl, list[k].v))

\* an INSERT committed row by row: the rows stored before the rejected one stay
InsertInto_keeps_partial(name, values, d, m) ==
    LET Outcome(done) ==
            IF done.exc # NoExc
            THEN Fail(done.exc, WithTable(d, name, done.tbl), m)
            ELSE Ok(PDict([inserted |-> PInt(done.n)]), WithTable(d, name, done.tbl), m)
        list == IF values.t = "list" THEN values.v ELSE <<values>>
        named == UNION {DOMAIN list[i].v : i \in DOMAIN list}
    IN  IF values.t = "NoneType"
        THEN Fail(Exc("ValueError", <<"'insert' action requires 'values' (or 'data') field">>), d, m)
        ELSE IF ~(named \subseteq m[name])
        THEN Fail(Exc("CompileError", <<"Unconsumed column names">>), d, m)
        ELSE IF named \cap Stale(d, m, name) # {}
        THEN Fail(UndefinedColumn, d, m)
        ELSE Outcome(InsertAll(d[name], list, 1))

\* the INSERT of _insert on the reflected table, committed or not at all
InsertInto(name, values, d, m) ==
    LET Outcome(done) ==
            IF done.exc # NoExc
            THEN \* the session is closed without commit: nothing of the call stays
                 Fail(done.exc, d, m)
            ELSE Ok(PDict([inserted |-> PInt(done.n)]), WithTable(d, name, done.tbl), m)
        list == IF values.t = "list" THEN values.v ELSE <<values>>
        named == UNION {DOMAIN list[i].v : i \in DOMAIN list}
    IN  IF values.t = "NoneType"
        THEN Fail(Exc("ValueError", <<"'insert' action requires 'values' (or 'data') field">>), d, m)
        ELSE IF ~(named \subseteq m[name])
        THEN Fail(Exc("CompileError", <<"Unconsumed column names">>), d, m)
        ELSE IF named \cap Stale(d, m, name) # {}
        THEN Fail(UndefinedColumn, d, m)
        ELSE Outcome(InsertAll(d[name], list, 1))

Insert(payload, d, m) ==
    LET name == payload["table"].v
        values == IF PTruthy(Get(payload, "values", PNone)) THEN payload["values"]
                  ELSE Get(payload, "data", PNone)
        Then(got) == IF ~got.ok THEN got ELSE InsertInto(name, values, got.db, got.md)
    IN  Then(GetTable(name, d, m))

\* the SELECT of _select on the reflected table
SelectFrom(name, payload, d, m) ==
    LET columns == Get(payload, "columns", PNone)
        given == Get(payload, "where", PNone)
        where == IF PTruthy(given) THEN given.v ELSE EmptyDict
        wanted == IF PTruthy(columns) THEN {columns.v[i].v : i \in DOMAIN columns.v}
                  ELSE m[name]
        offset == IF Get(payload, "offset", PNone).t = "int" THEN payload["offset"].v ELSE 0
        Page(hits) ==
            LET skipped == SubSeq(hits, offset + 1, Len(hits))
                limit == IF Get(payload, "limit", PNone).t = "int" THEN payload["limit"].v
                         ELSE Len(skipped)
            IN  SubSeq(skipped, 1, IF limit < Len(skipped) THEN limit ELSE Len(skipped))
        Rows(page) == PList([i \in DOMAIN page |-> PDict([c \in wanted |-> page[i][c]])])
    IN  IF ~((wanted \cup DOMAIN where) \subseteq m[name])
        THEN \* tbl.c[c]
             Fail(Exc("KeyError", <<"column">>), d, m)
        ELSE IF (wanted \cup DOMAIN where) \cap Stale(d, m, name) # {}
        THEN Fail(UndefinedColumn, d, m)
        ELSE Ok(Rows(Page(SelectSeq(d[name].rows,
                        LAMBDA r : \A c \in DOMAIN where : ValEq(r[c], where[c])))),
                d, m)

Select(payload, d, m) ==
    LET Then(got) == IF ~got.ok THEN got
                     ELSE SelectFrom(payload["table"].v, payload, got.db, got.md)
    IN  IF "table" \notin DOMAIN payload
        THEN Fail(Exc("ValueError", <<"'select/list' action requires 'table' field">>), d, m)
        ELSE Then(GetTable(payload["table"].v, d, m))

\* ---------------------------------- postgres_tool.py: more schema and data ops
DropColumn(payload, d, m) ==
    LET tbl_name == payload["table"].v
        col_name == payload["column"].v
    IN  IF tbl_name \notin DOMAIN d
        THEN Fail(Exc("ProgrammingError", <<"relation does not exist">>), d, m)
        ELSE \* ALTER TABLE ... DROP COLUMN IF EXISTS
             Ok(PDict([dropped_column |-> PStr(col_name), table |-> PStr(tbl_name)]),
                WithTable(d, tbl_name,
                    [cols |-> SelectSeq(d[tbl_name].cols, LAMBDA c : c.name # col_name),
                     rows |-> [i \in DOMAIN d[tbl_name].rows |->
                                 [c \in DOMAIN d[tbl_name].rows[i] \ {col_name} |->
                                    d[tbl_name].rows[i][c]]]]),
                m)

\* payload.get(key) or {}
DictOrEmpty(payload, key) ==
    IF PTruthy(Get(payload, key, PNone)) THEN payload[key].v ELSE EmptyDict

\* the row passes every `tbl.c[col] == val` of the where filter
Matches(row, where) == \A c \in DOMAIN where : ValEq(row[c], where[c])

\* a constraint of tbl the rows break: a key held twice, or no value in a
\* column that needs one; NoExc when the rows are fine
RowsError(tbl, rows) ==
    IF \E c \in PkNames(tbl) : \E i, j \in DOMAIN rows :
           i # j /\ ValEq(rows[i][c], rows[j][c])
    THEN Exc("IntegrityError", <<"duplicate key value violates unique constraint">>)
    ELSE IF \E k \in DOMAIN tbl.cols : \E i \in DOMAIN rows :
               /\ tbl.cols[k].pk \/ ~tbl.cols[k].nullable
               /\ rows[i][tbl.cols[k].name] = PNone
    THEN Exc("IntegrityError", <<"null value violates not-null constraint">>)
    ELSE NoExc

\* the UPDATE of _update on the reflected table: one statement, committed
\* when the database takes it
UpdateIn(name, payload, d, m) ==
    LET tbl == d[name]
        where == DictOrEmpty(payload, "where")
        values == DictOrEmpty(payload, "values")
        after == [i \in DOMAIN tbl.rows |->
                    IF Matches(tbl.rows[i], where)
                    THEN [c \in ColNames(tbl) |->
                            IF c \in DOMAIN values THEN values[c] ELSE tbl.rows[i][c]]
                    ELSE tbl.rows[i]]
        Then(refused) ==
            IF refused # NoExc THEN Fail(refused, d, m)
            ELSE Ok(PDict([updated |->
                             PInt(Cardinality({i \in DOMAIN tbl.rows :
                                                  Matches(tbl.rows[i], where)}))]),
                    WithTable(d, name, [tbl EXCEPT !.rows = after]), m)
    IN  IF ~(DOMAIN where \subseteq m[name])
        THEN Fail(Exc("KeyError", <<"column">>), d, m)
        ELSE IF ~(DOMAIN values \subseteq m[name])
        THEN Fail(Exc("CompileError", <<"Unconsumed column names">>), d, m)
        ELSE IF (DOMAIN where \cup DOMAIN values) \cap Stale(d, m, name) # {}
        THEN Fail(UndefinedColumn, d, m)
        ELSE Then(RowsError(tbl, after))

Update(payload, d, m) ==
    LET Then(got) == IF ~got.ok THEN got
                     ELSE UpdateIn(payload["table"].v, payload, got.db, got.md)
    IN  Then(GetTable(payload["table"].v, d, m))

\* the DELETE of _delete on the reflected table
DeleteIn(name, payload, d, m) ==
    LET tbl == d[name]
        where == DictOrEmpty(payload, "where")
    IN  IF ~(DOMAIN where \subseteq m[name])
        THEN Fail(Exc("KeyError", <<"column">>), d, m)
        ELSE IF DOMAIN where \cap Stale(d, m, name) # {}
        THEN Fail(UndefinedColumn, d, m)
        ELSE Ok(PDict([deleted |->
                         PInt(Cardinality({i \in DOMAIN tbl.rows :
                                              Matches(tbl.rows[i], where)}))]),
                WithTable(d, name,
                    [tbl EXCEPT !.rows = SelectSeq(tbl.rows,
                                                   LAMBDA r : ~Matches(r, where))]),
                m)

Delete(payload, d, m) ==
    LET Then(got) == IF ~got.ok THEN got
                     ELSE DeleteIn(payload["table"].v, payload, got.db, got.md)
    IN  Then(GetTable(payload["table"].v, d, m))

\* ------------------------------------------- postgres_tool.py: analytic ops
\* str.lower() for the operation names the model uses
LowerOp(n) == CASE n = "SUM" -> "sum" [] n = "Count" -> "count" [] OTHER -> n

AggNames == {"count", "sum", "avg", "min", "max"}

\* the order of the text values of the store
TextOrder == <<"x", "y">>

Rank(v) == IF v.t = "int" THEN v.v ELSE CHOOSE i \in DOMAIN TextOrder : TextOrder[i] = v.v

RECURSIVE SumOf(_)
SumOf(vals) == IF vals = <<>> THEN 0 ELSE vals[1].v + SumOf(Tail(vals))

\* what the database answers for agg over the non-null values of a column
AggValue(agg, vals) ==
    CASE vals = <<>> -> PNone
      [] agg = "sum" -> PInt(SumOf(vals))
      [] agg = "avg" -> [t |-> "Decimal", v |-> <<SumOf(vals), Len(vals)>>]
      [] agg = "min" ->
            vals[CHOOSE i \in DOMAIN vals : \A j \in DOMAIN vals : Rank(vals[i]) <= Rank(vals[j])]
      [] agg = "max" ->
            vals[CHOOSE i \in DOMAIN vals : \A j \in DOMAIN vals : Rank(vals[i]) >= Rank(vals[j])]

\* _aggregate after the table was reflected
AggregateOn(name, payload, d, m) ==
    LET tbl == d[name]
        column == IF PTruthy(Get(payload, "column", PNone)) THEN payload["column"]
                  ELSE Get(payload, "field", PNone)
        named == IF PTruthy(Get(payload, "operation", PNone)) THEN payload["operation"]
                 ELSE IF PTruthy(Get(payload, "agg", PNone)) THEN payload["agg"]
                 ELSE PStr("count")
        agg == LowerOp(named.v)
        where == DictOrEmpty(payload, "where")
        hits == SelectSeq(tbl.rows, LAMBDA r : Matches(r, where))
        vals == SelectSeq([i \in DOMAIN hits |-> hits[i][column.v]], LAMBDA v : v # PNone)
        Answer(value) ==
            Ok(PDict([table |-> payload["table"], operation |-> PStr(agg), value |-> value]),
               d, m)
    IN  IF ~PTruthy(column) /\ agg # "count"
        THEN Fail(Exc("ValueError",
                      <<"'aggregate' requires 'column' for operations other than count">>),
                  d, m)
        ELSE IF PTruthy(column) /\ column.v \notin m[name]
        THEN \* col_obj = tbl.c[column]
             Fail(Exc("KeyError", <<column.v>>), d, m)
        ELSE IF agg \notin AggNames
        THEN Fail(Exc("ValueError", <<"Unsupported aggregate operation '", agg, "'">>), d, m)
        ELSE IF ~(DOMAIN where \subseteq m[name])
        THEN Fail(Exc("KeyError", <<"column">>), d, m)
        ELSE IF (DOMAIN where \cup (IF agg = "count" THEN {} ELSE {column.v}))
                   \cap Stale(d, m, name) # {}
        THEN Fail(UndefinedColumn, d, m)
        ELSE IF agg = "count" THEN Answer(PInt(Len(hits)))
        ELSE IF agg \in {"sum", "avg"} /\ \E i \in DOMAIN vals : vals[i].t # "int"
        THEN Fail(Exc("ProgrammingError", <<"function does not exist">>), d, m)
        ELSE Answer(AggValue(agg, vals))

Aggregate(payload, d, m) ==
    LET Then(got) == IF ~got.ok THEN got
                     ELSE AggregateOn(payload["table"].v, payload, got.db, got.md)
    IN  Then(GetTable(payload["table"].v, d, m))

\* round(count / total * 100, 2), in hundredths of a percent
Percent(count, total) == [t |-> "float", v |-> (count * 20000 + total) \div (2 * total)]

\* the values of a column in the order of their first row
RECURSIVE Distinct(_)
Distinct(vals) ==
    IF vals = <<>> THEN <<>>
    ELSE <<vals[1]>> \o Distinct(SelectSeq(Tail(vals), LAMBDA v : v # vals[1]))

CountOf(v, vals) == Cardinality({i \in DOMAIN vals : vals[i] = v})

\* the groups as they come, without ORDER BY
ByCountDesc_unsorted(groups, vals) == groups

\* ORDER BY count DESC; groups of equal count stay in the order of their
\* first row
RECURSIVE ByCountDesc(_, _)
ByCountDesc(groups, vals) ==
    IF groups = <<>> THEN <<>>
    ELSE LET top == CHOOSE i \in DOMAIN groups :
                       /\ \A j \in DOMAIN groups :
                             CountOf(groups[i], vals) >= CountOf(groups[j], vals)
                       /\ \A j \in 1..(i - 1) :
                             CountOf(groups[j], vals) < CountOf(groups[i], vals)
         IN  <<groups[top]>>
             \o ByCountDesc(SubSeq(groups, 1, top - 1) \o SubSeq(groups, top + 1, Len(groups)),
                            vals)

\* _group_by after the table was reflected
GroupByOn(name, payload, d, m) ==
    LET tbl == d[name]
        top_n == IF "top_n" \in DOMAIN payload THEN payload["top_n"].v ELSE 10
        include_percent == PTruthy(Get(payload, "percent", PInt(1)))
        vals == [i \in DOMAIN tbl.rows |-> tbl.rows[i][payload["column"].v]]
        total == Len(vals)
        Rows(order) ==
            [i \in 1..(IF top_n < Len(order) THEN top_n ELSE Len(order)) |->
                IF include_percent /\ total # 0
                THEN PDict([value |-> order[i], count |-> PInt(CountOf(order[i], vals)),
                            percent |-> Percent(CountOf(order[i], vals), total)])
                ELSE PDict([value |-> order[i], count |-> PInt(CountOf(order[i], vals))])]
    IN  IF "column" \notin DOMAIN payload
        THEN Fail(Exc("KeyError", <<"column">>), d, m)
        ELSE IF payload["column"].v \notin m[name]
        THEN Fail(Exc("KeyError", <<payload["column"].v>>), d, m)
        ELSE IF payload["column"].v \in Stale(d, m, name)
        THEN Fail(UndefinedColumn, d, m)
        ELSE Ok(PDict([table |-> payload["table"], group_by |-> payload["column"],
                       rows |-> PList(Rows(ByCountDesc(Distinct(vals), vals))),
                       total |-> PInt(total)]),
                d, m)

GroupBy(payload, d, m) ==
    LET Then(got) == IF ~got.ok THEN got
                     ELSE GroupByOn(payload["table"].v, payload, got.db, got.md)
    IN  Then(GetTable(payload["table"].v, d, m))

Granularities == {"hour", "day", "week", "month", "year"}

\* _time_series after the table was reflected. No column of this store is
\* of a date type, and the database has no date_trunc for any other type.
TimeSeriesOn(name, payload, d, m) ==
    LET tbl == d[name]
        column == Get(payload, "column", PStr("created_at")).v
        gran == Get(payload, "granularity", PStr("day")).v
    IN  IF column \notin m[name] THEN Fail(Exc("KeyError", <<column>>), d, m)
        ELSE IF gran \notin Granularities
        THEN Fail(Exc("ValueError", <<"granularity must be hour/day/week/month/year">>), d, m)
        ELSE Fail(Exc("ProgrammingError", <<"function date_trunc does not exist">>), d, m)

TimeSeries(payload, d, m) ==
    LET Then(got) == IF ~got.ok THEN got
                     ELSE TimeSeriesOn(payload["table"].v, payload, got.db, got.md)
    IN  Then(GetTable(payload["table"].v, d, m))

\* _join_select: both tables are reflected first. The store holds one table,
\* so two tables that exist are the same table, and the database refuses
\* the join of a table with itself under one name.
JoinSelect(payload, d, m) ==
    LET Joined(right) ==
            IF ~right.ok THEN right
            ELSE Fail(Exc("ProgrammingError", <<"table name specified more than once">>),
                      right.db, right.md)
        Then(left) ==
            IF ~left.ok THEN left
            ELSE Joined(GetTable(payload["right_table"].v, left.db, left.md))
    IN  Then(GetTable(payload["left_table"].v, d, m))

\* ---------------------------------------------- postgres_tool.py: __call__
Dispatched(payload, d, m) ==
    LET action == payload["action"].v
    IN  CASE action = "create_table" -> CreateTable(payload, d, m)
          [] action = "add_column" -> AddColumn(payload, d, m)
          [] action = "describe_table" -> DescribeTable(payload, d, m)
          [] action = "list_tables" -> ListTables(d, m)
          [] action = "drop_table" -> DropTable(payload, d, m)
          [] action = "select" -> Select(payload, d, m)
          [] action = "insert" -> Insert(payload, d, m)
          [] action = "drop_column" -> DropColumn(payload, d, m)
          [] action = "update" -> Update(payload, d, m)
          [] action = "delete" -> Delete(payload, d, m)
          [] action = "aggregate" -> Aggregate(payload, d, m)
          [] action = "group_by" -> GroupBy(payload, d, m)
          [] action = "time_series" -> TimeSeries(payload, d, m)
          [] action = "join_select" -> JoinSelect(payload, d, m)
          [] OTHER -> Fail(Exc("ValueError", <<"Unsupported db action">>), d, m)

\* `except SQLAlchemyError as exc: raise RuntimeError(str(exc))`
Reraised(r) == IF r.ok THEN r ELSE [r EXCEPT !.exc = WrapSqlError(r.exc)]

pg_tool(payload, d, m) ==
    IF ~PTruthy(Get(payload, "action", PNone))
    THEN Fail(Exc("ValueError", <<"Missing 'action' in payload">>), d, m)
    ELSE Reraised(Dispatched(payload, d, m))

\* ------------------------------------------- agent_tools/postgres_tools.py
\* The handlers: validated arguments -> the payload handed to pg_tool.
HandlerPayload(tool, args) ==
    CASE tool = "list_tables" -> [action |-> PStr("list_tables")]
      [] tool = "describe_table" ->
            [action |-> PStr("describe_table"), table |-> args["table"]]
      [] tool = "create_table" ->
            IF PTruthy(Get(args, "columns", PNone))
            THEN [action |-> PStr("create_table"), table |-> args["table"],
                  columns |-> args["columns"]]
            ELSE [action |-> PStr("create_table"), table |-> args["table"]]
      [] tool = "add_column" ->
            [action |-> PStr("add_column"), table |-> args["table"],
             column |-> args["column"],
             data_type |-> Get(args, "data_type", PStr("text"))]
      [] tool = "drop_table" ->
            [action |-> PStr("drop_table"), table |-> args["table"]]
      [] tool = "insert_rows" ->
            [action |-> PStr("insert"), table |-> args["table"],
             values |-> args["values"]]
      [] tool = "select_rows" ->
            [action |-> PStr("select"), table |-> args["table"],
             where |-> Get(args, "where", PDict(EmptyDict)),
             columns |-> Get(args, "columns", PNone),
             limit |-> Get(args, "limit", PNone)]

\* A schema entry (type, default); `...` as default makes the field required.
Required(ty) == [type |-> ty, required |-> TRUE, default |-> PNone]

Optional(ty, default) == [type |-> ty, required |-> FALSE, default |-> default]

\* The schema each ToolSpec(...) of postgres_tools.py declares.
ToolSchema(tool) ==
    CASE tool = "list_tables" -> [f \in {} |-> Required("str")]
      [] tool = "describe_table" -> [table |-> Required("str")]
      [] tool = "create_table" ->
            [table |-> Required("str"), columns |-> Optional("list", PList(<<>>))]
      [] tool = "add_column" ->
            [table |-> Required("str"), column |-> Required("str"),
             data_type |-> Optional("str", PStr("text"))]
      [] tool = "drop_table" -> [table |-> Required("str")]
      [] tool = "insert_rows" -> [table |-> Required("str"), values |-> Required("dict")]
      [] tool = "select_rows" ->
            [table |-> Required("str"), where |-> Optional("dict", PDict(EmptyDict)),
             columns |-> Optional("list", PNone), limit |-> Optional("int", PNone)]

\* The tools registered when postgres_tools is imported: NAME_TO_SPEC's keys.
RegisteredTools ==
    {"list_tables", "describe_table", "create_table", "add_column",
     "drop_table", "insert_rows", "select_rows"}

\* ------------------------------------------------- agent_tools/spec.py
\* ToolSpec.validate: ArgsModel(**raw). Missing required fields and values of
\* another type are refused; extra keys are dropped; defaults fill the rest.
ValidationError(tool, raw) ==
    LET schema == ToolSchema(tool)
    IN  IF raw.t # "dict"
        THEN Exc("TypeError", <<"argument after ** must be a mapping">>)
        ELSE IF \E f \in DOMAIN schema :
                  \/ schema[f].required /\ f \notin DOMAIN raw.v
                  \/ f \in DOMAIN raw.v /\ raw.v[f].t # schema[f].type
        THEN Exc("ValidationError", <<"validation error for Args">>)
        ELSE NoExc

\* ArgsModel built with extra fields allowed: what the schema does not name
\* is handed on
Validated_keeps_extras(tool, raw) ==
    LET schema == ToolSchema(tool)
    IN  [f \in DOMAIN schema \cup DOMAIN raw.v |->
            IF f \in DOMAIN raw.v THEN raw.v[f] ELSE schema[f].default]

Validated(tool, raw) ==
    LET schema == ToolSchema(tool)
    IN  [f \in DOMAIN schema |->
            IF f \in DOMAIN raw.v THEN raw.v[f] ELSE schema[f].default]

\* ToolSpec.run: validate, then the handler on validated.dict(). `ran` names
\* the handler that was entered, if one was, and `args` is what it was given.
Run(tool, raw_args, d, m) ==
    LET Then(refused) ==
            IF refused # NoExc
            THEN [out |-> Fail(refused, d, m), ran |-> <<>>, args |-> <<>>]
            ELSE [out |-> pg_tool(HandlerPayload(tool, Validated(tool, raw_args)), d, m),
                  ran |-> <<tool>>,
                  args |-> <<Validated(tool, raw_args)>>]
    IN  Then(ValidationError(tool, raw_args))

\* ------------------------------------------------ tool calls and messages
\* The arguments of a call as the model sent them: absent, a JSON text, or an
\* already structured value.
RawAbsent == [kind |-> "absent", text |-> "", val |-> PNone]

RawText(text) == [kind |-> "str", text |-> text, val |-> PNone]

RawValue(v) == [kind |-> "value", text |-> "", val |-> v]

J_table == "{\"table\": \"t\"}"

J_insert == "{\"table\": \"t\", \"values\": {\"id\": 1}}"

J_broken == "{\"table\": "

\* json.loads on the texts the model sends; ok = FALSE is JSONDecodeError
JsonLoads(text) ==
    CASE text = J_table -> [ok |-> TRUE, val |-> PDict([table |-> PStr("t")])]
      [] text = J_insert ->
            [ok |-> TRUE,
             val |-> PDict([table |-> PStr("t"), values |-> PDict([id |-> PInt(1)])])]
      [] text = "{}" -> [ok |-> TRUE, val |-> PDict(EmptyDict)]
      [] OTHER -> [ok |-> FALSE, val |-> PNone]

\* One entry of additional_kwargs["tool_calls"]: `name`/`arguments` at the top
\* level or under `function` (a sequence of zero or one record), `id` or None.
ToolCall(id, name, arguments, function) ==
    [id |-> id, name |-> name, arguments |-> arguments, function |-> function]

Function(name, arguments) == <<[name |-> name, arguments |-> arguments]>>

Message(type, content, function_call, tool_calls, tool_call_id) ==
    [type |-> type, content |-> content, function_call |-> function_call,
     tool_calls |-> tool_calls, tool_call_id |-> tool_call_id]

SystemMessage(content) == Message("system", content, <<>>, <<>>, None)

HumanMessage(content) == Message("human", content, <<>>, <<>>, None)

AIMessage(content, function_call, tool_calls) ==
    Message("ai", content, function_call, tool_calls, None)

ToolMessage(content, tool_call_id) == Message("tool", content, <<>>, <<>>, tool_call_id)

\* str(result): the text opens with the bracket of the result's type
Str(result) ==
    [head |-> CASE result.t = "dict" -> <<"{">>
                [] result.t = "list" -> <<"[">>
                [] result.t = "NoneType" -> <<"N", "o", "n", "e">>
                [] OTHER -> <<>>,
     data |-> result]

\* f"ERROR: {exc}"
ErrorText(exc) == [head |-> <<"E", "R", "R", "O", "R", ":", " ">>, data |-> PStr(exc.msg)]

\* str(content).lower().startswith("error")
IsErrorContent(content) == StartsWith(Lower(content.head), <<"e", "r", "r", "o", "r">>)

\* -------------------------------------------- langgraph_agent.py: dispatch
\* the policy set with insert_rows forgotten
MUTATIVE_forgets_insert ==
    {"create_table", "add_column", "drop_table", "drop_column", "rename_column",
     "update_rows", "delete_rows", "update", "delete", "insert"}

MUTATIVE ==
    {"create_table", "add_column", "drop_table", "drop_column", "rename_column",
     "insert_rows", "update_rows", "delete_rows", "update", "delete", "insert"}

\* the name and the raw arguments _dispatch_tool reads off a call
DispatchName(tool_call) ==
    IF tool_call.name # None THEN tool_call.name ELSE tool_call.function[1].name

DispatchRaw(tool_call) ==
    IF tool_call.name # None THEN tool_call.arguments ELSE tool_call.function[1].arguments

\* raw arguments -> args: a JSON text is parsed ({} when empty or broken),
\* anything else is taken as it is ({} when falsy or absent)
ParsedArgs(raw) ==
    CASE raw.kind = "str" ->
            IF raw.text = "" THEN PDict(EmptyDict)
            ELSE IF JsonLoads(raw.text).ok THEN JsonLoads(raw.text).val
            ELSE PDict(EmptyDict)
      [] raw.kind = "value" -> IF PTruthy(raw.val) THEN raw.val ELSE PDict(EmptyDict)
      [] OTHER -> PDict(EmptyDict)

_dispatch_tool(tool_call, d, m) ==
    IF tool_call.name = None /\ tool_call.function = <<>>
    THEN [out |-> Fail(Exc("ValueError",
                           <<"Malformed tool_call: missing 'name' or 'function.name'">>),
                       d, m),
          ran |-> <<>>, args |-> <<>>]
    ELSE IF DispatchName(tool_call) \notin RegisteredTools
    THEN [out |-> Fail(Exc("ValueError", <<"Unknown tool: ", DispatchName(tool_call)>>), d, m),
          ran |-> <<>>, args |-> <<>>]
    ELSE Run(DispatchName(tool_call), ParsedArgs(DispatchRaw(tool_call)), d, m)

\* --------------------------------------------- langgraph_agent.py: tool_node
\* uuid.uuid4() for the call synthesized from a function_call: a fresh token
\* per superstep
Uuids == <<"uuid-1", "uuid-2", "uuid-3", "uuid-4", "uuid-5", "uuid-6", "uuid-7", "uuid-8">>

\* The calls tool_node works on: the single function_call, parsed and given an
\* id, or else the tool_calls list of the last message.
CallsOf(last, n) ==
    IF last.function_call # <<>>
    THEN LET fc == last.function_call[1]
             args == CASE fc.arguments.kind = "absent" -> PDict(EmptyDict)
                       [] fc.arguments.kind = "str" ->
                            IF JsonLoads(fc.arguments.text).ok
                            THEN JsonLoads(fc.arguments.text).val
                            ELSE PDict(EmptyDict)
                       [] OTHER -> fc.arguments.val
         IN  <<ToolCall(Uuids[n], fc.name, RawValue(args), <<>>)>>
    ELSE last.tool_calls

\* call.get("name") or call.get("function", {}).get("name", "unknown")
CallName(call) ==
    IF Truthy(call.name) THEN call.name
    ELSE IF call.function # <<>> THEN call.function[1].name
    ELSE "unknown"

\* call_id or call_name
ResultId(call) == IF Truthy(call.id) THEN call.id ELSE CallName(call)

\* `except Exception` takes every exception the body can raise
ExceptionClasses ==
    {"ValueError", "RuntimeError", "TypeError", "KeyError", "ValidationError",
     "AttributeError"}

\* an `except ValueError` in its place
Caught_only_value_errors(exc) == exc.cls = "ValueError"

Caught(exc) == exc.cls \in ExceptionClasses

ReadOnlyViolation == Exc("RuntimeError", <<"read_only_violation: mutative tool not allowed">>)

\* the body of the `try` for one call
Attempt(call, ro, d, m) ==
    IF ro /\ CallName(call) \in MUTATIVE
    THEN [out |-> Fail(ReadOnlyViolation, d, m), ran |-> <<>>, args |-> <<>>]
    ELSE _dispatch_tool(call, d, m)

\* the loop leaving at the first failure: once an error is recorded the
\* calls that follow are skipped
AfterCall_stops_at_failure(acc, call, k, try) ==
    IF \E i \in DOMAIN acc.new_msgs : IsErrorContent(acc.new_msgs[i].content)
    THEN acc
    ELSE IF try.out.ok
    THEN [acc EXCEPT !.db = try.out.db, !.md = try.out.md,
                     !.ran = @ \o [i \in DOMAIN try.ran |-> [tool |-> try.ran[i], k |-> k]],
                     !.new_msgs = Append(@, ToolMessage(Str(try.out.val), ResultId(call)))]
    ELSE [acc EXCEPT !.db = try.out.db, !.md = try.out.md,
                     !.ran = @ \o [i \in DOMAIN try.ran |-> [tool |-> try.ran[i], k |-> k]],
                     !.new_msgs = Append(@, ToolMessage(ErrorText(try.out.exc), ResultId(call)))]

\* One turn of the `for call in tool_calls` loop: the message appended for
\* call k, whose `try` body came back with `try`; an exception the `except`
\* does not take leaves the loop.
AfterCall(acc, call, k, try) ==
    LET seen == [acc EXCEPT !.db = try.out.db, !.md = try.out.md,
                            !.ran = @ \o [i \in DOMAIN try.ran |->
                                             [tool |-> try.ran[i], k |-> k]]]
    IN  IF try.out.ok
        THEN [seen EXCEPT !.new_msgs =
                    Append(@, ToolMessage(Str(try.out.val), ResultId(call)))]
        ELSE IF Caught(try.out.exc)
        THEN [seen EXCEPT !.new_msgs =
                    Append(@, ToolMessage(ErrorText(try.out.exc), ResultId(call)))]
        ELSE [seen EXCEPT !.escaped = try.out.exc]

RECURSIVE RunCalls(_, _, _, _)
\* The loop from call k on. acc holds new_msgs, the store, the handlers
\* entered so far and the exception that left the loop.
RunCalls(tool_calls, k, ro, acc) ==
    IF k > Len(tool_calls) \/ acc.escaped # NoExc THEN acc
    ELSE RunCalls(tool_calls, k + 1, ro,
                  AfterCall(acc, tool_calls[k], k,
                            Attempt(tool_calls[k], ro, acc.db, acc.md)))

tool_node(msgs, ro, d, m, n) ==
    RunCalls(CallsOf(Last(msgs), n), 1, ro,
             [new_msgs |-> <<>>, db |-> d, md |-> m, ran |-> <<>>, escaped |-> NoExc])

\* ------------------------------------------------ langgraph_agent.py: _route
\* a route that sends a message without requests to the tools node
_route_loops_on_answer(msgs) ==
    IF /\ Len(msgs) >= 2
       /\ msgs[Len(msgs) - 1].type = "tool"
       /\ IsErrorContent(msgs[Len(msgs) - 1].content)
       /\ (Last(msgs).function_call # <<>> \/ Last(msgs).tool_calls # <<>>)
    THEN "end" ELSE "tools"

\* the route without its look at the previous tool result
_route_ignores_error(msgs) ==
    IF Last(msgs).function_call # <<>> \/ Last(msgs).tool_calls # <<>>
    THEN "tools" ELSE "end"

\* a route that stops after any tool result, whatever its content
_route_stops_after_any_result(msgs) ==
    LET last == Last(msgs)
    IN  IF last.function_call # <<>> \/ last.tool_calls # <<>>
        THEN IF /\ Len(msgs) >= 2
                /\ msgs[Len(msgs) - 1].type = "tool"
             THEN "end"
             ELSE "tools"
        ELSE "end"

_route(msgs) ==
    LET last == Last(msgs)
    IN  IF last.function_call # <<>> \/ last.tool_calls # <<>>
        THEN IF /\ Len(msgs) >= 2
                /\ msgs[Len(msgs) - 1].type = "tool"
                /\ IsErrorContent(msgs[Len(msgs) - 1].content)
             THEN "end"
             ELSE "tools"
        ELSE "end"

\* ------------------------------------------ langgraph_agent.py: chat (seed)
analytic_keywords ==
    {<<"p", "l", "o", "t">>,
     <<"h", "i", "s", "t", "o", "g", "r", "a", "m">>,
     <<"c", "h", "a", "r", "t">>,
     <<"g", "r", "a", "p", "h">>,
     <<"s", "h", "o", "w">>,
     <<"l", "i", "s", "t">>,
     <<"c", "o", "u", "n", "t">>,
     <<"a", "v", "e", "r", "a", "g", "e">>,
     <<"s", "u", "m">>,
     <<"t", "o", "p">>,
     <<"a", "g", "g", "r", "e", "g", "a", "t", "e">>,
     <<"g", "r", "o", "u", "p">>,
     <<"d", "e", "s", "c", "r", "i", "b", "e">>,
     <<"t", "i", "m", "e", " ", "s", "e", "r", "i", "e", "s">>}

mutative_keywords ==
    {<<"i", "n", "s", "e", "r", "t">>,
     <<"c", "r", "e", "a", "t", "e">>,
     <<"a", "d", "d">>,
     <<"u", "p", "d", "a", "t", "e">>,
     <<"d", "e", "l", "e", "t", "e">>,
     <<"d", "r", "o", "p">>}

is_analytic(prompt) == \E k \in analytic_keywords : Contains(Lower(prompt), k)

wants_modify(prompt) == \E k \in mutative_keywords : Contains(Lower(prompt), k)

\* the flag taken from the analytic keywords alone
ReadOnlyFor_analytic_only(prompt) == is_analytic(prompt)

ReadOnlyFor(prompt) == is_analytic(prompt) /\ ~wants_modify(prompt)

DateTypes == {"datetime", "timestamp", "date"}

DateTables(d) ==
    SelectSeq(ExistingTables(d),
              LAMBDA n : \E i \in DOMAIN d[n].cols : d[n].cols[i].type \in DateTypes)

\* schema_msgs followed by the prompt
SeedMessages(prompt, d) ==
    (IF ExistingTables(d) # <<>>
     THEN <<SystemMessage(<<"Known tables: ">> \o ExistingTables(d))>> ELSE <<>>)
    \o (IF DateTables(d) # <<>>
        THEN <<SystemMessage(<<"Tables with DATE/TIMESTAMP columns: ">> \o DateTables(d))>>
        ELSE <<>>)
    \o (IF ReadOnlyFor(prompt)
        THEN <<SystemMessage(<<"Read-only mode: the user appears to want analytics/visualisation only.">>)>>
        ELSE <<>>)
    \o <<HumanMessage(prompt)>>

\* ------------------------------------------------------------ the inputs
\* prompts a caller sends
Prompts ==
    {<<"S", "h", "o", "w", " ", "t">>,
     <<"a", "d", "d", " ", "r", "o", "w">>}

\* The requests the model draws from. A request the provider gave an id
\* carries "auto" here; the id is filled in by position in the batch.
CallShapes ==
    {ToolCall("auto", None, RawAbsent, Function("create_table", RawText(J_table))),
     ToolCall("auto", None, RawAbsent, Function("insert_rows", RawText(J_insert))),
     ToolCall(None, "list_tables", RawAbsent, <<>>),
     ToolCall("auto", None, RawAbsent, Function("update_rows", RawText(J_table))),
     ToolCall("auto", None, RawAbsent, Function("describe_table", RawText(J_broken))),
     ToolCall(None, None, RawAbsent, <<>>),
     ToolCall("auto", "create_table",
              RawValue(PDict([table |-> PStr("t"),
                              columns |-> PList(<<PDict([name |-> PStr("c"),
                                                         type |-> PStr("uuid")])>>)])),
              <<>>)}

\* legacy single function_call responses
FunctionCalls ==
    {[name |-> "insert_rows", arguments |-> RawText(J_insert)],
     [name |-> "list_tables", arguments |-> RawAbsent]}

CallIds == <<"call_1", "call_2", "call_3", "call_4", "call_5", "call_6">>

Batch(shapes) ==
    [k \in DOMAIN shapes |->
        IF shapes[k].id = "auto" THEN [shapes[k] EXCEPT !.id = CallIds[k]] ELSE shapes[k]]

AnswerTexts == {<<"Here is the answer.">>}

\* what the model may answer when it may still emit `room` requests
Responses(room) ==
    {AIMessage(text, <<>>, <<>>) : text \in AnswerTexts}
    \cup {AIMessage(<<>>, <<fc>>, <<>>) : fc \in IF room >= 1 THEN FunctionCalls ELSE {}}
    \cup UNION {{AIMessage(<<>>, <<>>, Batch(shapes)) : shapes \in [1..n -> CallShapes]}
                : n \in 1..room}

\* exceptions a model call ends with: transport failure, timeout, cancellation
ModelErrors == {"APITimeoutError", "CancelledError"}

\* databases a process may start on
InitDbs == {EmptyDb, WithTable(EmptyDb, "t", [cols |-> <<IdColumn>>, rows |-> <<>>])}

\* ------------------------------------------------------------ the machine
\* no direct call has been made
NoCall == [op |-> "none"]

\* the conversations that run on the one agent, registry and translator
Conversations == {1, 2}

\* The connection after ws.accept(): the handler waits in receive_json, has
\* received no request and sent nothing. `sent` holds the messages sent for
\* the latest request, `prompts` counts the requests handed to agent.chat.
Accepted ==
    [at |-> "receive", data |-> EmptyDict, sent |-> <<>>, requests |-> 0, prompts |-> 0,
     missed |-> 0]

Init ==
    /\ pc = "idle"
    /\ messages = <<>>
    /\ read_only = FALSE
    /\ step = 0
    /\ db \in InitDbs
    /\ md = EmptyMd
    /\ invoked = <<>>
    /\ returned = <<>>
    /\ raised = None
    /\ emitted = 0
    /\ _events = <<>>
    /\ registry = [name \in RegisteredTools |-> [name |-> name, handler |-> name]]
    /\ called = NoCall
    /\ reflected = [c \in Conversations |-> EmptyMd]
    /\ ws = Accepted

\* chat(prompt) up to workflow.ainvoke(initial_state), for a prompt of `prompts`
ChatWith(prompts) ==
    /\ pc = "idle"
    /\ \E prompt \in prompts :
        /\ messages' = SeedMessages(prompt, db)
        /\ read_only' = ReadOnlyFor(prompt)
    /\ pc' = "agent"
    /\ UNCHANGED <<step, db, md, invoked, returned, raised, emitted, _events>>
    /\ UNCHANGED aside

Chat == ChatWith(Prompts)

NumCalls(msg) == IF msg.function_call # <<>> THEN 1 ELSE Len(msg.tool_calls)

\* agent_node and the conditional edge after it; on "end" chat returns the
\* content of the last message
AgentNode ==
    /\ pc = "agent"
    /\ step < MaxSteps
    /\ \E resp \in Responses(MaxCalls - emitted) :
        /\ messages' = Append(messages, resp)
        /\ emitted' = emitted + NumCalls(resp)
    /\ step' = step + 1
    /\ IF _route(messages') = "tools"
       THEN pc' = "tools" /\ returned' = returned
       ELSE pc' = "TERMINAL" /\ returned' = <<Last(messages').content>>
    /\ UNCHANGED <<read_only, db, md, invoked, raised, _events>>
    /\ UNCHANGED aside

\* a failed model call that is tried again
ModelFails_retries ==
    /\ pc = "agent"
    /\ step < MaxSteps
    /\ pc' = "agent"
    /\ raised' \in ModelErrors
    /\ step' = step + 1
    /\ UNCHANGED <<messages, read_only, db, md, invoked, returned, emitted, _events>>
    /\ UNCHANGED aside

\* llm_with_tools.ainvoke raises: nothing catches it up to the caller of chat
ModelFails ==
    /\ pc = "agent"
    /\ step < MaxSteps
    /\ pc' = "FAILED"
    /\ raised' \in ModelErrors
    /\ UNCHANGED <<messages, read_only, step, db, md, invoked, returned, emitted, _events>>
    /\ UNCHANGED aside

\* a tool_node that returns the new results without the history
ToolNode_drops_history ==
    /\ pc = "tools"
    /\ step < MaxSteps
    /\ \E r \in {tool_node(messages, read_only, db, md, step + 1)} :
           /\ db' = r.db
           /\ md' = r.md
           /\ invoked' = invoked \o r.ran
           /\ IF r.escaped # NoExc
              THEN pc' = "FAILED" /\ raised' = r.escaped.cls /\ messages' = messages
              ELSE pc' = "agent" /\ raised' = raised /\ messages' = r.new_msgs
    /\ step' = step + 1
    /\ UNCHANGED <<read_only, returned, emitted, _events>>
    /\ UNCHANGED aside

\* tool_node and the edge back to "agent"
ToolNode ==
    /\ pc = "tools"
    /\ step < MaxSteps
    /\ \E r \in {tool_node(messages, read_only, db, md, step + 1)} :
           /\ db' = r.db
           /\ md' = r.md
           /\ invoked' = invoked \o r.ran
           /\ IF r.escaped # NoExc
              THEN pc' = "FAILED" /\ raised' = r.escaped.cls /\ messages' = messages
              ELSE pc' = "agent" /\ raised' = raised /\ messages' = messages \o r.new_msgs
    /\ step' = step + 1
    /\ UNCHANGED <<read_only, returned, emitted, _events>>
    /\ UNCHANGED aside

\* the graph has run its budget of supersteps and a node is still due
OutOfSteps ==
    /\ pc \in {"agent", "tools"}
    /\ step = MaxSteps
    /\ pc' = "FAILED"
    /\ raised' = "GraphRecursionError"
    /\ UNCHANGED <<messages, read_only, step, db, md, invoked, returned, emitted, _events>>
    /\ UNCHANGED aside

Next == Chat \/ AgentNode \/ ModelFails \/ ToolNode \/ OutOfSteps

Spec == Init /\ [][Next]_vars

\* ------------------------------------------------- reading the history
\* The requests a model message carries, as the message states them.
RequestsOf(msg) ==
    IF msg.function_call # <<>>
    THEN <<[id |-> None, tool |-> msg.function_call[1].name]>>
    ELSE [k \in DOMAIN msg.tool_calls |->
            [id |-> msg.tool_calls[k].id,
             tool |-> IF msg.tool_calls[k].name # None THEN msg.tool_calls[k].name
                      ELSE IF msg.tool_calls[k].function # <<>>
                      THEN msg.tool_calls[k].function[1].name
                      ELSE None]]

BearsCalls(msg) == msg.type = "ai" /\ Len(RequestsOf(msg)) > 0

\* message i is a model message whose requests have been answered
Answered(i) == BearsCalls(messages[i]) /\ i < Len(messages)

IsResult(i) == i \in DOMAIN messages /\ messages[i].type = "tool"

\* message i is a tool result whose text starts with "ERROR"
IsErrorResult(i) ==
    /\ IsResult(i)
    /\ Len(messages[i].content.head) >= 5
    /\ SubSeq(messages[i].content.head, 1, 5) = <<"E", "R", "R", "O", "R">>

ErrorTextOf(i) == messages[i].content.data.v

Ended == pc \in {"TERMINAL", "FAILED"}

\* the mutating set of the read-only policy, as the specification lists it
MutatingNames ==
    {"create_table", "add_column", "drop_table", "drop_column", "rename_column",
     "insert_rows", "update_rows", "delete_rows", "update", "delete", "insert"}

\* ------------------------------------------------------------------ C1
\* C1: in a read-only conversation no handler of a tool of the mutating set
\* is ever entered, and every request for such a tool is answered by an
\* error-tagged tool result stating the read-only violation.
C1_ReadOnlyBlocksMutators ==
    read_only =>
        /\ \A j \in DOMAIN invoked : invoked[j].tool \notin MutatingNames
        /\ \A i \in DOMAIN messages : Answered(i) =>
              \A k \in DOMAIN RequestsOf(messages[i]) :
                 RequestsOf(messages[i])[k].tool \in MutatingNames =>
                    /\ IsErrorResult(i + k)
                    /\ ErrorTextOf(i + k) = <<"read_only_violation: mutative tool not allowed">>

\* a read-only turn in which a mutating request was refused and another
\* tool's handler ran
C1_Witness ==
    /\ read_only
    /\ invoked # <<>>
    /\ \E i \in DOMAIN messages :
          /\ IsErrorResult(i)
          /\ ErrorTextOf(i) = <<"read_only_violation: mutative tool not allowed">>

\* ------------------------------------------------------------------ C2
\* the newest message is an error-tagged tool result: dispatch has finished
\* and the model is due
ErrorJustRecorded == pc = "agent" /\ IsErrorResult(Len(messages))

OwnerOf(i) ==
    CHOOSE a \in 1..(i - 1) :
        /\ messages[a].type = "ai"
        /\ \A b \in (a + 1)..(i - 1) : messages[b].type # "ai"

\* the request tool result i answers
RequestOf(i) == RequestsOf(messages[OwnerOf(i)])[i - OwnerOf(i)]

\* model messages received after message i
ModelCallsAfter(i) == {j \in (i + 1)..Len(messages) : messages[j].type = "ai"}

\* tool results of batches later than the one message i belongs to
LaterResults(i) ==
    {l \in (i + 1)..Len(messages) : IsResult(l) /\ \E j \in ModelCallsAfter(i) : j < l}

ReadOnlyText == <<"read_only_violation: mutative tool not allowed">>

\* C3: in a read-only turn a request for insert_rows gets an error-tagged
\* result and the insert handler is never entered; after that result the
\* model is called at most once more and no later batch is dispatched.
C3_RefusedInsertEndsTurn ==
    read_only =>
        /\ \A j \in DOMAIN invoked : invoked[j].tool # "insert_rows"
        /\ \A i \in DOMAIN messages :
              (IsResult(i) /\ RequestOf(i).tool = "insert_rows") =>
                  /\ IsErrorResult(i)
                  /\ ErrorTextOf(i) = ReadOnlyText
                  /\ Cardinality(ModelCallsAfter(i)) <= 1
                  /\ LaterResults(i) = {}

\* ------------------------------------------------------------------ C4
\* A node that is due is run: chat awaits workflow.ainvoke, and the graph
\* runs agent, tools or its own step check next; each run moves pc or step.
NodeRuns ==
    /\ pc \in {"idle", "agent", "tools"}
    /\ pc' \in {"agent", "tools", "TERMINAL", "FAILED"}
    /\ step' \in {step, step + 1}
    /\ <<pc', step'>> # <<pc, step>>

SpecFair == Init /\ [][Next]_vars /\ WF_<<pc, step>>(NodeRuns)

\* C4: every turn reaches TERMINAL, whatever the model answers (a turn whose
\* model call itself fails is set aside).
C4_ReachesTerminal == <>(pc = "TERMINAL" \/ raised \in ModelErrors)

\* ------------------------------------------------------------------ C5
\* C5: once any request of a batch has failed, the model message that
\* follows ends the turn: it is the last message and none of its requests
\* is dispatched.
C5_AnyFailureStops ==
    \A i \in DOMAIN messages : IsErrorResult(i) =>
        /\ LaterResults(i) = {}
        /\ \A j \in ModelCallsAfter(i) : j = Len(messages) /\ pc = "TERMINAL"

\* ------------------------------------------------------------------ C6
\* C6: a model message with n requests is answered by n tool results in the
\* order of the requests, the k-th carrying the id of the k-th request, and
\* no two results of a batch carry the same tag.
C6_ResultsMatchRequests ==
    \A a \in DOMAIN messages : Answered(a) =>
        LET reqs == RequestsOf(messages[a])
        IN  /\ \A k \in DOMAIN reqs :
                 /\ IsResult(a + k)
                 /\ Truthy(reqs[k].id) => messages[a + k].tool_call_id = reqs[k].id
            /\ (a + Len(reqs) < Len(messages) => messages[a + Len(reqs) + 1].type = "ai")
            /\ \A k, l \in DOMAIN reqs :
                 k # l => messages[a + k].tool_call_id # messages[a + l].tool_call_id

\* ------------------------------------------------------------------ C7
\* a tool message whose text starts with "ERROR"
ErrorMarked(msg) ==
    /\ msg.type = "tool"
    /\ Len(msg.content.head) >= 5
    /\ SubSeq(msg.content.head, 1, 5) = <<"E", "R", "R", "O", "R">>

\* the tools node runs on the requests of the newest message
ToolsStep == pc = "tools" /\ step' = step + 1

DueRequests == RequestsOf(Last(messages))

HoldsRowOne(d) ==
    "t" \in DOMAIN d /\ \E i \in DOMAIN d["t"].rows : d["t"].rows[i]["id"] = PInt(1)

\* C7: a run of the tools node answers every request of the batch: each one
\* either had its handler entered or got an error result of its own, also
\* after a sibling failed, and what the successful calls wrote is in the
\* store when the batch is over.
C7_SiblingsStillDispatched ==
    [][ToolsStep =>
          LET base == Len(messages)
              reqs == DueRequests
              fresh == SubSeq(invoked', Len(invoked) + 1, Len(invoked'))
          IN  /\ Len(messages') = base + Len(reqs)
              /\ \A k \in DOMAIN reqs :
                    /\ \/ ErrorMarked(messages'[base + k])
                       \/ \E j \in DOMAIN fresh :
                             fresh[j].k = k /\ fresh[j].tool = reqs[k].tool
                    /\ ~ErrorMarked(messages'[base + k]) =>
                          /\ reqs[k].tool = "create_table" => "t" \in DOMAIN db'
                          /\ reqs[k].tool = "insert_rows" => HoldsRowOne(db')]_vars

\* a batch in which a call succeeded, the next one failed and the one after
\* it succeeded again, with the row of the insert in the store
C7_Witness ==
    /\ HoldsRowOne(db)
    /\ \E a \in DOMAIN messages :
          /\ Answered(a)
          /\ Len(RequestsOf(messages[a])) = 3
          /\ ~IsErrorResult(a + 1)
          /\ IsErrorResult(a + 2)
          /\ ~IsErrorResult(a + 3)
          /\ RequestsOf(messages[a])[3].tool = "insert_rows"

\* ------------------------------------------------------------------ C8
\* C8: a model message without requests ends the turn in TERMINAL with its
\* content as the returned text; whenever the turn is in TERMINAL the
\* returned text is the content of the last message, nothing is returned
\* before, and no step leaves TERMINAL.
C8_AnswerEndsTurn ==
    /\ [](pc = "TERMINAL" => returned = <<Last(messages).content>>)
    /\ [](returned # <<>> => pc = "TERMINAL")
    /\ [][pc # "TERMINAL"]_vars
    /\ [][(/\ pc = "agent"
           /\ Len(messages') = Len(messages) + 1
           /\ ~BearsCalls(Last(messages'))) =>
              /\ pc' = "TERMINAL"
              /\ returned' = <<Last(messages').content>>]_vars

\* a turn that ran tools and then ended on a plain answer, which chat returned
C8_Witness ==
    /\ pc = "TERMINAL"
    /\ ~BearsCalls(Last(messages))
    /\ Last(messages).content # <<>>
    /\ returned = <<Last(messages).content>>
    /\ \E i \in DOMAIN messages : IsResult(i)

\* ------------------------------------------------------------------ C9
\* C9: when a model call fails the turn is over: chat raises the failure and
\* returns nothing, the failing step appends no message and enters no
\* handler, and no step follows it (no retry, no dispatch).
C9_ModelFailureIsFatal ==
    /\ [](raised \in ModelErrors => pc = "FAILED" /\ returned = <<>>)
    /\ [][raised \notin ModelErrors]_vars
    /\ [][raised' \in ModelErrors =>
             messages' = messages /\ invoked' = invoked /\ db' = db]_vars

\* the second model call of a turn failed, after a handler had run
C9_Witness ==
    /\ raised \in ModelErrors
    /\ pc = "FAILED"
    /\ invoked # <<>>
    /\ \E i \in DOMAIN messages : IsResult(i)

\* ----------------------------------------------------------------- C10
\* the text the result of request k must carry when the request fails for a
\* reason that can be told from the request and the store; <<>> otherwise
ExpectedFailure(req, call, d, m) ==
    IF read_only /\ req.tool \in MutatingNames THEN ReadOnlyText
    ELSE IF req.tool = None
    THEN <<"Malformed tool_call: missing 'name' or 'function.name'">>
    ELSE IF req.tool \notin RegisteredTools THEN <<"Unknown tool: ", req.tool>>
    ELSE IF call.function # <<>> /\ call.function[1].arguments = RawText(J_broken)
    THEN <<"validation error for Args">>
    ELSE IF req.tool = "create_table" /\ call.arguments.kind = "value"
    THEN <<"Unsupported column type ", "uuid">>
    ELSE IF req.tool = "create_table" /\ "t" \in DOMAIN m
    THEN <<"Table '", "t", "' is already defined for this MetaData instance">>
    ELSE IF req.tool = "insert_rows" /\ "t" \notin DOMAIN d
    THEN <<"table_not_found:", "t">>
    ELSE <<>>

\* C10: a run of the tools node never ends the turn and raises nothing: it
\* hands over to the model with one result per request, and a request that
\* fails (malformed, unknown tool, invalid arguments, handler exception,
\* missing table, unsupported type, read-only violation) has a result that
\* starts with the error marker and carries the message of the failure.
C10_FailuresBecomeResults ==
    [][ToolsStep =>
          LET base == Len(messages)
              reqs == DueRequests
          IN  /\ pc' = "agent"
              /\ raised' = raised
              /\ Len(messages') = base + Len(reqs)
              /\ \A k \in DOMAIN reqs :
                    /\ messages'[base + k].type = "tool"
                    /\ ErrorMarked(messages'[base + k]) =>
                          /\ messages'[base + k].content.data.t = "str"
                          /\ messages'[base + k].content.data.v # <<>>
                    /\ Last(messages).function_call = <<>> =>
                          LET want == ExpectedFailure(reqs[k], Last(messages).tool_calls[k],
                                                      db', md)
                          IN  want # <<>> =>
                                 /\ ErrorMarked(messages'[base + k])
                                 /\ messages'[base + k].content.data.v = want]_vars

\* a turn whose tool results record three failures of different kinds, with
\* the model due again
C10_Witness ==
    /\ pc = "agent"
    /\ raised = None
    /\ \E i, j, l \in DOMAIN messages :
          /\ IsErrorResult(i) /\ IsErrorResult(j) /\ IsErrorResult(l)
          /\ ErrorTextOf(i)[1] = "Unknown tool: "
          /\ ErrorTextOf(j)[1] = "validation error for Args"
          /\ ErrorTextOf(l)[1] = "table_not_found:"

\* ----------------------------------------------------------------- C11
\* C11: the events accessor lists the tool calls dispatched in the turn, one
\* entry per handler invocation, in dispatch order.
C11_EventsListDispatches ==
    /\ Len(_events) = Len(invoked)
    /\ \A j \in DOMAIN _events : _events[j].tool = invoked[j].tool

\* ------------------------------------------------- agent_tools/spec.py: registry
\* names and handlers a module may hand to ToolSpec(...)
ToolNames == {"list_tables", "describe_table", "create_table", "echo"}

Handlers == {"_list_tables_handler", "_describe_handler", "_create_table_handler"}

\* ToolSpec.__init__ without its look at the registry: the later tool wins
ToolSpec_init_overwrites(reg, name, handler) ==
    [exc |-> NoExc,
     reg |-> [n \in DOMAIN reg \cup {name} |->
                IF n = name THEN [name |-> name, handler |-> handler] ELSE reg[n]]]

\* ToolSpec.__init__: a name the registry holds is refused, otherwise the new
\* ToolSpec is stored under its name
ToolSpec_init(reg, name, handler) ==
    IF name \in DOMAIN reg
    THEN [exc |-> Exc("ValueError", <<"Duplicate tool name: ", name>>), reg |-> reg]
    ELSE [exc |-> NoExc,
          reg |-> [n \in DOMAIN reg \cup {name} |->
                     IF n = name THEN [name |-> name, handler |-> handler] ELSE reg[n]]]

\* what no registration touches
turn == <<pc, messages, read_only, step, db, md, invoked, returned, raised, emitted,
          _events>>

\* the import of the tool modules starts on an empty registry
InitRegistry ==
    /\ pc = "idle"
    /\ messages = <<>>
    /\ read_only = FALSE
    /\ step = 0
    /\ db = EmptyDb
    /\ md = EmptyMd
    /\ invoked = <<>>
    /\ returned = <<>>
    /\ raised = None
    /\ emitted = 0
    /\ _events = <<>>
    /\ registry = [name \in {} |-> name]
    /\ called = NoCall
    /\ reflected = [c \in Conversations |-> EmptyMd]
    /\ ws = Accepted

\* one ToolSpec(name=..., handler=...) statement
RegisterTool ==
    /\ \E name \in ToolNames, handler \in Handlers :
          \E r \in {ToolSpec_init(registry, name, handler)} :
             /\ registry' = r.reg
             /\ called' = [op |-> "register", name |-> name, handler |-> handler,
                           exc |-> r.exc]
    /\ UNCHANGED <<turn, reflected, ws>>

NextRegistry == RegisterTool

SpecRegistry == InitRegistry /\ [][NextRegistry]_vars

\* ----------------------------------------------------------------- C12
\* C12: registering a name the registry already holds fails with the
\* duplicate-name error and leaves the registry as it was; a new name is
\* stored with its handler; so every entry is the tool of its own name and
\* no two registered tools share a name.
C12_DuplicateRejected ==
    /\ [](\A n \in DOMAIN registry : registry[n].name = n)
    /\ [][called'.op = "register" =>
             IF called'.name \in DOMAIN registry
             THEN /\ called'.exc = Exc("ValueError", <<"Duplicate tool name: ", called'.name>>)
                  /\ registry' = registry
             ELSE /\ called'.exc = NoExc
                  /\ DOMAIN registry' = DOMAIN registry \cup {called'.name}
                  /\ registry'[called'.name].handler = called'.handler
                  /\ \A n \in DOMAIN registry : registry'[n] = registry[n]]_vars

\* a second registration of a name with another handler was refused and the
\* first handler is still the one registered
C12_Witness ==
    /\ called.op = "register"
    /\ called.exc # NoExc
    /\ registry[called.name].handler # called.handler
    /\ Cardinality(DOMAIN registry) >= 2

\* ------------------------------------------------- direct calls, interleaved
\* Rows one table holds (the calls that would store more are left out).
MaxRows == 3

T == PStr("t")

IdSpec == PDict([name |-> PStr("id"), type |-> PStr("integer"), pk |-> PInt(1)])

\* the payloads callers hand to pg_tool
SchemaPayloads ==
    {[action |-> PStr("create_table"), table |-> T],
     [action |-> PStr("create_table"), table |-> T, columns |-> PList(<<>>)],
     [action |-> PStr("create_table"), table |-> T,
      columns |-> PList(<<IdSpec, PDict([name |-> PStr("c"), type |-> PStr("Text")])>>)],
     [action |-> PStr("create_table"), table |-> T,
      columns |-> PList(<<IdSpec, PDict([name |-> PStr("c"), type |-> PStr("uuid")])>>)],
     [action |-> PStr("add_column"), table |-> T, column |-> PStr("c")],
     [action |-> PStr("add_column"), table |-> T, column |-> PStr("c"),
      data_type |-> PStr("uuid")],
     [action |-> PStr("drop_column"), table |-> T, column |-> PStr("c")],
     [action |-> PStr("drop_table"), table |-> T],
     [action |-> PStr("list_tables")],
     [action |-> PStr("describe_table"), table |-> T],
     [action |-> PStr("truncate"), table |-> T],
     [table |-> T]}

DataPayloads ==
    {[action |-> PStr("insert"), table |-> T, values |-> PDict([id |-> PInt(1)])],
     [action |-> PStr("insert"), table |-> T, values |-> PDict([id |-> PInt(3)])],
     [action |-> PStr("insert"), table |-> T,
      values |-> PList(<<PDict([id |-> PInt(2)]), PDict([id |-> PInt(2)])>>)],
     [action |-> PStr("insert"), table |-> T,
      values |-> PList(<<PDict([id |-> PInt(2)]), PDict([id |-> PInt(1)])>>)],
     [action |-> PStr("insert"), table |-> T],
     [action |-> PStr("select"), table |-> T],
     [action |-> PStr("select"), table |-> T, where |-> PDict([id |-> PInt(1)])],
     [action |-> PStr("select")],
     [action |-> PStr("update"), table |-> T, where |-> PDict([id |-> PInt(1)]),
      values |-> PDict([c |-> PStr("x")])],
     [action |-> PStr("update"), table |-> T, values |-> PDict([id |-> PInt(1)])],
     [action |-> PStr("delete"), table |-> T, where |-> PDict([id |-> PInt(1)])],
     [action |-> PStr("aggregate"), table |-> T],
     [action |-> PStr("aggregate"), table |-> T, column |-> PStr("id"),
      operation |-> PStr("SUM")],
     [action |-> PStr("aggregate"), table |-> T, column |-> PStr("id"),
      operation |-> PStr("median")],
     [action |-> PStr("aggregate"), table |-> T, column |-> PStr("c"),
      operation |-> PStr("median")],
     [action |-> PStr("aggregate"), table |-> T, column |-> PStr("c"),
      operation |-> PStr("Count")],
     [action |-> PStr("aggregate"), table |-> T, operation |-> PStr("max")],
     [action |-> PStr("aggregate"), table |-> T, column |-> PStr("id"),
      operation |-> PStr("SUM"), where |-> PDict([id |-> PInt(1)])],
     [action |-> PStr("group_by"), table |-> T, column |-> PStr("c")],
     [action |-> PStr("group_by"), table |-> T, column |-> PStr("c"), top_n |-> PInt(1)],
     [action |-> PStr("group_by"), table |-> T, column |-> PStr("c"), top_n |-> PInt(1),
      percent |-> PInt(0)],
     [action |-> PStr("time_series"), table |-> T, column |-> PStr("id")],
     [action |-> PStr("join_select"), left_table |-> T, right_table |-> T,
      left_key |-> PStr("id"), right_key |-> PStr("id")]}

Payloads == SchemaPayloads \cup DataPayloads

\* the tool calls callers hand to _dispatch_tool
DirectCalls ==
    {ToolCall("call_1", "describe_table", RawValue(PDict([table |-> T])), <<>>),
     ToolCall("call_1", "describe_table",
              RawValue(PDict([table |-> T, verbose |-> PInt(1)])), <<>>),
     ToolCall("call_1", "describe_table", RawValue(PDict([verbose |-> PInt(1)])), <<>>),
     ToolCall("call_1", "describe_table", RawValue(PDict([table |-> PInt(5)])), <<>>),
     ToolCall("call_1", "create_table", RawValue(PDict([table |-> T])), <<>>),
     ToolCall("call_1", "create_table",
              RawValue(PDict([table |-> T, columns |-> PList(<<>>)])), <<>>),
     ToolCall("call_1", "create_table",
              RawValue(PDict([table |-> T, columns |-> PStr("id")])), <<>>),
     ToolCall("call_1", None, RawAbsent, Function("insert_rows", RawText(J_insert))),
     ToolCall("call_1", None, RawAbsent, Function("insert_rows", RawText(J_table))),
     ToolCall("call_1", "insert_rows",
              RawValue(PDict([table |-> T, values |-> PDict([id |-> PInt(2)]),
                              returning |-> PStr("id")])), <<>>),
     ToolCall("call_1", "list_tables", RawValue(PDict([table |-> T])), <<>>),
     ToolCall("call_1", "drop_table", RawText(J_broken), <<>>),
     ToolCall("call_1", "update_rows", RawText(J_table), <<>>)}

\* no table of the store holds more than MaxRows rows
Fits(d) == \A n \in DOMAIN d : Len(d[n].rows) <= MaxRows

InitTools ==
    /\ pc = "idle"
    /\ messages = <<>>
    /\ read_only = FALSE
    /\ step = 0
    /\ db \in InitDbs
    /\ md = EmptyMd
    /\ invoked = <<>>
    /\ returned = <<>>
    /\ raised = None
    /\ emitted = 0
    /\ _events = <<>>
    /\ registry = [name \in RegisteredTools |-> [name |-> name, handler |-> name]]
    /\ called = NoCall
    /\ reflected = [c \in Conversations |-> EmptyMd]
    /\ ws = Accepted

\* what a direct call leaves alone
loop == <<pc, messages, read_only, step, invoked, returned, raised, emitted, _events,
          registry, ws>>

\* a conversation of `callers` calls pg_tool(payload) for a payload of `payloads`
CallTranslatorBy(callers, payloads) ==
    /\ \E caller \in callers, payload \in payloads :
          \E r \in {pg_tool(payload, db, md)} :
             /\ Fits(r.db)
             /\ db' = r.db
             /\ md' = r.md
             /\ called' = [op |-> "pg_tool", caller |-> caller, payload |-> payload,
                           ok |-> r.ok, val |-> r.val, exc |-> r.exc,
                           \* the call before it was the same call
                           again |-> called.op = "pg_tool" /\ called.payload = payload]
             /\ reflected' = [reflected EXCEPT
                                ![caller] = pg_tool(payload, db, reflected[caller]).md]
    /\ UNCHANGED loop

\* the tool node of a conversation of `callers` calls _dispatch_tool(call)
DispatchToolBy(callers, calls) ==
    /\ \E caller \in callers, call \in calls :
          \E r \in {_dispatch_tool(call, db, md)} :
             /\ Fits(r.out.db)
             /\ db' = r.out.db
             /\ md' = r.out.md
             /\ called' = [op |-> "dispatch", caller |-> caller, call |-> call,
                           ran |-> r.ran, args |-> r.args,
                           ok |-> r.out.ok, val |-> r.out.val, exc |-> r.out.exc]
             /\ reflected' = [reflected EXCEPT
                                ![caller] = _dispatch_tool(call, db, reflected[caller]).out.md]
    /\ UNCHANGED loop

\* one conversation on its own
CallTranslator == CallTranslatorBy({1}, Payloads)

DispatchTool == DispatchToolBy({1}, DirectCalls)

NextTools == CallTranslator \/ DispatchTool

SpecTools == InitTools /\ [][NextTools]_vars

\* conversations interleaved on the one translator, on the schema calls and
\* a few data calls
SharedPayloads ==
    SchemaPayloads
    \cup {[action |-> PStr("insert"), table |-> T, values |-> PDict([id |-> PInt(1)])],
          [action |-> PStr("select"), table |-> T]}

SharedCalls ==
    {ToolCall("call_1", "create_table", RawValue(PDict([table |-> T])), <<>>),
     ToolCall("call_1", "describe_table", RawValue(PDict([table |-> T])), <<>>)}

CallTranslatorShared == CallTranslatorBy(Conversations, SharedPayloads)

DispatchToolShared == DispatchToolBy(Conversations, SharedCalls)

NextShared == CallTranslatorShared \/ DispatchToolShared

SpecShared == InitTools /\ [][NextShared]_vars

\* ----------------------------------------------------------------- C13
\* the arguments of a direct dispatch as _dispatch_tool parsed them
GivenArgs(c) == ParsedArgs(DispatchRaw(c.call)).v

\* a required argument is missing from given, or an argument is of another
\* type than the schema names
Unfit(schema, given) ==
    \E f \in DOMAIN schema :
        \/ schema[f].required /\ f \notin DOMAIN given
        \/ f \in DOMAIN given /\ given[f].t # schema[f].type

\* C13: the dispatch of a registered tool validates the raw arguments before
\* anything runs: with a required argument missing or of the wrong type it
\* fails with the validation error, no handler is entered and the store is as
\* it was; otherwise the handler is entered exactly once, and it is given the
\* schema's fields only, the given values for those that were given.
C13_ValidatedBeforeHandler ==
    [][(called'.op = "dispatch" /\ DispatchName(called'.call) \in RegisteredTools) =>
          IF Unfit(ToolSchema(DispatchName(called'.call)), GivenArgs(called'))
          THEN /\ called'.exc.cls = "ValidationError"
               /\ called'.ran = <<>>
               /\ called'.args = <<>>
               /\ db' = db
               /\ md' = md
          ELSE /\ called'.ran = <<DispatchName(called'.call)>>
               /\ Len(called'.args) = 1
               /\ DOMAIN called'.args[1] = DOMAIN ToolSchema(DispatchName(called'.call))
               /\ \A f \in DOMAIN called'.args[1] \cap DOMAIN GivenArgs(called') :
                     called'.args[1][f] = GivenArgs(called')[f]]_vars

\* a dispatch whose arguments held a field the schema does not name: the
\* handler ran once, on arguments without that field
C13_Witness ==
    /\ called.op = "dispatch"
    /\ "returning" \in DOMAIN GivenArgs(called)
    /\ called.ran = <<"insert_rows">>
    /\ "returning" \notin DOMAIN called.args[1]
    /\ called.ok

\* ------------------------------------------------- the policy on many prompts
\* the words prompts are made of: analytic ones, mutative ones, words that
\* hold a keyword inside another word, and words that hold none
Words ==
    {<<"S", "h", "o", "w">>,
     <<"l", "i", "s", "t">>,
     <<"C", "O", "U", "N", "T">>,
     <<"h", "i", "s", "t", "o", "g", "r", "a", "m">>,
     <<"g", "r", "a", "p", "h">>,
     <<"t", "i", "m", "e", "-", "s", "e", "r", "i", "e", "s">>,
     <<"t", "i", "m", "e", " ", "s", "e", "r", "i", "e", "s">>,
     <<"s", "t", "o", "p">>,
     <<"A", "d", "d">>,
     <<"a", "d", "d", "r", "e", "s", "s">>,
     <<"u", "p", "d", "a", "t", "e">>,
     <<"r", "o", "w", "s">>,
     <<"h", "e", "l", "l", "o">>}

PolicyPrompts == Words \cup {a \o <<" ">> \o b : a, b \in Words}

ChatPolicy == ChatWith(PolicyPrompts)

NextPolicy == ChatPolicy

SpecPolicy == Init /\ [][NextPolicy]_vars

\* ----------------------------------------------------------------- C14
\* the prompt of the turn: the content of the human message chat seeded
PromptOf(msgs) == Last(msgs).content

\* the text holds one of the words, in any letter case
HoldsOneOf(text, words) == \E w \in words : Contains(Lower(text), w)

\* the read-intent vocabulary as the specification lists it
ListedReadWords ==
    {<<"s", "h", "o", "w">>, <<"l", "i", "s", "t">>, <<"c", "o", "u", "n", "t">>,
     <<"a", "v", "e", "r", "a", "g", "e">>, <<"s", "u", "m">>, <<"t", "o", "p">>,
     <<"a", "g", "g", "r", "e", "g", "a", "t", "e">>, <<"g", "r", "o", "u", "p">>,
     <<"d", "e", "s", "c", "r", "i", "b", "e">>, <<"p", "l", "o", "t">>,
     <<"c", "h", "a", "r", "t">>,
     <<"t", "i", "m", "e", "-", "s", "e", "r", "i", "e", "s">>}

\* the read-intent vocabulary the flag is really derived from
ReadWords ==
    (ListedReadWords \ {<<"t", "i", "m", "e", "-", "s", "e", "r", "i", "e", "s">>})
    \cup {<<"t", "i", "m", "e", " ", "s", "e", "r", "i", "e", "s">>,
          <<"h", "i", "s", "t", "o", "g", "r", "a", "m">>,
          <<"g", "r", "a", "p", "h">>}

WriteWords ==
    {<<"c", "r", "e", "a", "t", "e">>, <<"i", "n", "s", "e", "r", "t">>,
     <<"u", "p", "d", "a", "t", "e">>, <<"d", "e", "l", "e", "t", "e">>,
     <<"d", "r", "o", "p">>, <<"a", "d", "d">>}

\* C14 as stated: the flag of a turn that began is true exactly when the
\* prompt holds a word of the listed read-intent vocabulary and none of
\* create/insert/update/delete/drop/add.
C14_ListedVocabulary ==
    pc = "agent" =>
        (read_only <=> (/\ HoldsOneOf(PromptOf(messages), ListedReadWords)
                        /\ ~HoldsOneOf(PromptOf(messages), WriteWords)))

\* C14, amended: the flag of a turn that began is true exactly when the
\* prompt holds, in any letter case and anywhere in its text, one of
\* plot/histogram/chart/graph/show/list/count/average/sum/top/aggregate/
\* group/describe/"time series" and none of create/insert/update/delete/
\* drop/add; so a prompt with a mutative keyword is never read-only and a
\* prompt without an analytic keyword is never read-only.
C14_ReadOnlyIsAnalyticNotMutative ==
    pc = "agent" =>
        /\ read_only <=> (/\ HoldsOneOf(PromptOf(messages), ReadWords)
                          /\ ~HoldsOneOf(PromptOf(messages), WriteWords))
        /\ HoldsOneOf(PromptOf(messages), WriteWords) => ~read_only
        /\ ~HoldsOneOf(PromptOf(messages), ReadWords) => ~read_only

\* a turn on a prompt with both an analytic and a mutative keyword
C14_Witness ==
    /\ pc = "agent"
    /\ HoldsOneOf(PromptOf(messages), ReadWords)
    /\ HoldsOneOf(PromptOf(messages), WriteWords)
    /\ ~read_only

\* ----------------------------------------------------------------- C15
\* what the latest call of a conversation would have come back with had the
\* table names in pg_tool.md been that conversation's own
OwnOutcome(c, d, m) ==
    IF c.op = "pg_tool" THEN pg_tool(c.payload, d, m)
    ELSE _dispatch_tool(c.call, d, m).out

\* C15: conversations share no mutable state but the store and the registry:
\* a call of one conversation comes back with what it would come back with
\* had no other conversation called the translator before it.
C15_ConversationsShareOnlyStore ==
    [][called'.op \in {"pg_tool", "dispatch"} =>
          \E own \in {OwnOutcome(called', db, reflected[called'.caller])} :
             /\ called'.ok = own.ok
             /\ called'.val = own.val
             /\ called'.exc = own.exc]_vars

\* ----------------------------------------------------------------- C16
\* the rows a bulk insert asks to store
BulkRows(c) ==
    IF c.op = "pg_tool" /\ Get(c.payload, "action", PNone).v = "insert"
       /\ Get(c.payload, "values", PNone).t = "list"
    THEN c.payload["values"].v ELSE <<>>

\* C16: a translator call is all or nothing: a call that fails leaves the
\* store exactly as it was before the call, rows and columns alike.
C16_FailedCallLeavesStore ==
    [][(called'.op \in {"pg_tool", "dispatch"} /\ ~called'.ok) => db' = db]_vars

\* a bulk insert whose first row the table takes and whose second row it
\* rejects has failed, and the table holds neither
C16_Witness ==
    /\ called.op = "pg_tool"
    /\ ~called.ok
    /\ Len(BulkRows(called)) = 2
    /\ "t" \in DOMAIN db
    /\ "id" \in ColNames(db["t"])
    /\ \A i \in DOMAIN db["t"].rows :
          ~ValEq(db["t"].rows[i]["id"], BulkRows(called)[1].v["id"])
    /\ called.exc.msg = <<"duplicate key value violates unique constraint">>

\* ----------------------------------------------------------------- C17
DataOps ==
    {"select", "insert", "update", "delete", "aggregate", "group_by", "time_series",
     "join_select"}

\* the payload the translator got in the latest call, <<>> when it got none
PayloadOf(c) ==
    IF c.op = "pg_tool" THEN <<c.payload>>
    ELSE IF c.op = "dispatch" /\ c.ran # <<>>
    THEN <<HandlerPayload(c.ran[1], c.args[1])>>
    ELSE <<>>

\* the tables a data payload names, in the order they are looked up
TablesOf(payload) ==
    IF payload["action"].v = "join_select"
    THEN <<payload["left_table"].v, payload["right_table"].v>>
    ELSE IF "table" \in DOMAIN payload THEN <<payload["table"].v>>
    ELSE <<>>

\* the latest call was a data operation on table n
DataCallOn(c, n) ==
    /\ PayloadOf(c) # <<>>
    /\ Get(PayloadOf(c)[1], "action", PNone).v \in DataOps
    /\ TablesOf(PayloadOf(c)[1]) # <<>>
    /\ TablesOf(PayloadOf(c)[1])[1] = n

IdempotentOps == {"add_column", "drop_column", "drop_table"}

\* C18: add_column, drop_column and drop_table called a second time with the
\* same arguments, right after a call that succeeded, succeed again and leave
\* the store, schema and rows, exactly as the first call left it.
C18_SecondCallChangesNothing ==
    [][(/\ called.op = "pg_tool"
        /\ called'.op = "pg_tool"
        /\ called'.payload = called.payload
        /\ Get(called.payload, "action", PNone).v \in IdempotentOps
        /\ called.ok) =>
            /\ called'.ok
            /\ called'.val = called.val
            /\ db' = db]_vars

\* add_column called twice in a row on a table that exists: the second call
\* came back without an error and the column is there once
C18_Witness ==
    /\ called.op = "pg_tool"
    /\ called.again
    /\ Get(called.payload, "action", PNone).v = "add_column"
    /\ called.ok
    /\ "t" \in DOMAIN db
    /\ Cardinality({i \in DOMAIN db["t"].cols : db["t"].cols[i].name = "c"}) = 1

\* ----------------------------------------------------------------- C19
\* the latest call was a create_table without columns that succeeded
CreatedByDefault(c) ==
    /\ PayloadOf(c) # <<>>
    /\ Get(PayloadOf(c)[1], "action", PNone).v = "create_table"
    /\ ~PTruthy(Get(PayloadOf(c)[1], "columns", PNone))
    /\ c.ok

\* C19: after a create_table without columns, given directly or through the
\* create_table tool, the table has exactly one column, named id, which is
\* the primary key, and the result reports columns = [id].
C19_DefaultTableHasOnlyId ==
    [][CreatedByDefault(called') =>
          /\ "t" \in DOMAIN db'
          /\ Len(db'["t"].cols) = 1
          /\ db'["t"].cols[1].name = "id"
          /\ db'["t"].cols[1].pk
          /\ called'.val.v["columns"] = PList(<<PStr("id")>>)]_vars

\* ----------------------------------------------------------------- C20
\* the latest call was an aggregate whose operation is none of the five
UnknownAggregate(c) ==
    /\ c.op = "pg_tool"
    /\ Get(c.payload, "action", PNone).v = "aggregate"
    /\ "operation" \in DOMAIN c.payload
    /\ LowerOp(c.payload["operation"].v) \notin {"count", "sum", "avg", "min", "max"}

\* C20: an aggregate with an operation outside count/sum/avg/min/max fails
\* with the unsupported-operation error whatever table and column it names,
\* and before the database is asked anything: nothing is reflected, nothing
\* is read.
C20_UnknownOperationFailsFirst ==
    [][UnknownAggregate(called') =>
          /\ ~called'.ok
          /\ called'.exc.cls = "ValueError"
          /\ called'.exc.msg[1] = "Unsupported aggregate operation '"
          /\ md' = md
          /\ db' = db]_vars

\* ----------------------------------------------------------------- C21
\* the latest call was an aggregate on a table the store holds
AggregateCall(c) ==
    /\ c.op = "pg_tool"
    /\ Get(c.payload, "action", PNone).v = "aggregate"

\* the operation an aggregate payload names, count when it names none
NamedOperation(payload) ==
    IF "operation" \in DOMAIN payload THEN LowerOp(payload["operation"].v) ELSE "count"

\* the rows of tbl whose columns equal every entry of the payload's where
Matching(tbl, payload) ==
    SelectSeq(tbl.rows,
              LAMBDA r : \A c \in DOMAIN DictOrEmpty(payload, "where") :
                            c \in DOMAIN r /\ r[c] = payload["where"].v[c])

\* C21: on a table of the store, count answers with the number of rows that
\* match where whether or not a column is named, even one the table does not
\* have; any other operation without a column fails with the validation
\* error.
C21_CountIgnoresColumn ==
    [][(AggregateCall(called') /\ "t" \in DOMAIN db) =>
          /\ NamedOperation(called'.payload) = "count" =>
                /\ called'.ok
                /\ called'.val.v["value"] = PInt(Len(Matching(db["t"], called'.payload)))
          /\ (/\ NamedOperation(called'.payload) # "count"
              /\ "column" \notin DOMAIN called'.payload) =>
                /\ ~called'.ok
                /\ called'.exc.cls = "ValueError"]_vars

\* ----------------------------------------------------------------- C22
\* the sum of integer column col over rows
RECURSIVE Total(_, _)
Total(rows, col) == IF rows = <<>> THEN 0 ELSE rows[1][col].v + Total(Tail(rows), col)

\* the latest call was a sum over the integer column id of table t
SumOfIds(c, d) ==
    /\ AggregateCall(c)
    /\ NamedOperation(c.payload) = "sum"
    /\ Get(c.payload, "column", PNone) = PStr("id")
    /\ "t" \in DOMAIN d
    /\ "id" \in ColNames(d["t"])

\* C22: sum over an integer column answers with the sum of the column over
\* exactly the rows that match where, all rows when there is no where,
\* whatever was inserted, updated and deleted before.
C22_SumOverMatchingRows ==
    [][SumOfIds(called', db) =>
          /\ called'.ok
          /\ called'.val.v["value"] = PInt(Total(Matching(db["t"], called'.payload), "id"))]_vars

\* ----------------------------------------------------------------- C23
\* the latest call was a group_by over a column of table t
GroupCall(c, d) ==
    /\ c.op = "pg_tool"
    /\ Get(c.payload, "action", PNone).v = "group_by"
    /\ "t" \in DOMAIN d
    /\ c.payload["column"].v \in ColNames(d["t"])

\* how many rows of tbl hold v in column col
Holding(tbl, col, v) == Cardinality({i \in DOMAIN tbl.rows : tbl.rows[i][col] = v})

\* the values column col takes in tbl
ValuesIn(tbl, col) == {tbl.rows[i][col] : i \in DOMAIN tbl.rows}

\* what C23 asks of the result res of a group_by over column col of tbl
GroupedRight(res, payload, tbl, col) ==
    LET rows == res["rows"].v
        top_n == IF "top_n" \in DOMAIN payload THEN payload["top_n"].v ELSE 10
        asked == IF "percent" \in DOMAIN payload THEN payload["percent"].v # 0 ELSE TRUE
        total == Len(tbl.rows)
        groups == Cardinality(ValuesIn(tbl, col))
    IN  /\ Len(rows) = IF top_n < groups THEN top_n ELSE groups
        /\ \A i \in DOMAIN rows :
              /\ rows[i].v["value"] \in ValuesIn(tbl, col)
              /\ rows[i].v["count"] = PInt(Holding(tbl, col, rows[i].v["value"]))
              /\ ("percent" \in DOMAIN rows[i].v) <=> (asked /\ total # 0)
              /\ "percent" \in DOMAIN rows[i].v =>
                    \* the hundredths nearest to count / total * 100
                    \E p \in {rows[i].v["percent"].v} :
                       /\ 2 * (p * total - rows[i].v["count"].v * 10000) <= total
                       /\ 2 * (rows[i].v["count"].v * 10000 - p * total) <= total
        /\ \A i, j \in DOMAIN rows :
              /\ i # j => rows[i].v["value"] # rows[j].v["value"]
              /\ i < j => rows[i].v["count"].v >= rows[j].v["count"].v
        /\ \A v \in ValuesIn(tbl, col) :
              (\A i \in DOMAIN rows : rows[i].v["value"] # v) =>
                  \A i \in DOMAIN rows : Holding(tbl, col, v) <= rows[i].v["count"].v
        /\ res["total"] = PInt(total)

\* C23: group_by answers with one row per distinct value and its count, in
\* the order of non-increasing count, cut to the top_n (10 by default) most
\* frequent; total is the row count of the table, not of what is returned;
\* percent is on a row only when it was asked for (it is by default) and
\* total is not 0.
C23_GroupsCountedAndOrdered ==
    [][GroupCall(called', db) =>
          /\ called'.ok
          /\ GroupedRight(called'.val.v, called'.payload, db["t"], called'.payload["column"].v)
          /\ db' = db]_vars

\* three rows, two of them in one group and the first row in the other,
\* top_n = 1: the answer is the group of two, 66.67 percent of a total of 3
C23_Witness ==
    /\ GroupCall(called, db)
    /\ called.ok
    /\ Len(db["t"].rows) = 3
    /\ Len(called.val.v["rows"].v) = 1
    /\ called.val.v["rows"].v[1].v["count"] = PInt(2)
    /\ called.val.v["rows"].v[1].v["value"] # db["t"].rows[1]["c"]
    /\ called.val.v["rows"].v[1].v["percent"].v = 6667
    /\ called.val.v["total"] = PInt(3)

\* ----------------------------------------------------------------- C24
\* the latest call was a select of whole rows of table t, filtered on
\* columns the table has
SelectCall(c, d) ==
    /\ c.op = "pg_tool"
    /\ Get(c.payload, "action", PNone).v = "select"
    /\ "table" \in DOMAIN c.payload
    /\ "columns" \notin DOMAIN c.payload
    /\ "t" \in DOMAIN d
    /\ DOMAIN DictOrEmpty(c.payload, "where") \subseteq ColNames(d["t"])

\* the latest call stored the one row `values` in table t
InsertedOne(c, values) ==
    /\ c.op = "pg_tool"
    /\ Get(c.payload, "action", PNone).v = "insert"
    /\ Get(c.payload, "values", PNone) = PDict(values)
    /\ c.ok

\* C24: select answers with exactly the rows whose columns equal every entry
\* of where, as they are stored; so a select filtered on the values of the
\* row just inserted answers with that row, every inserted value unchanged.
C24_SelectReturnsMatchingRows ==
    [][SelectCall(called', db) =>
          /\ called'.ok
          /\ called'.val.t = "list"
          /\ called'.val.v = [i \in DOMAIN Matching(db["t"], called'.payload) |->
                                 PDict(Matching(db["t"], called'.payload)[i])]
          /\ \A values \in {[id |-> PInt(1)]} :
                (InsertedOne(called, values) /\ called'.payload["where"] = PDict(values)) =>
                    \E i \in DOMAIN called'.val.v :
                       \A c \in DOMAIN values : called'.val.v[i].v[c] = values[c]]_vars

\* ----------------------------------------------------------------- C25
\* the type names the payload of a create_table or add_column gives that are
\* outside the closed vocabulary
OutsideVocabulary(payload) ==
    LET action == Get(payload, "action", PNone).v
        columns == Get(payload, "columns", PList(<<>>)).v
        given == Get(payload, "column", PNone)
    IN  IF action = "create_table"
        THEN {ColTypeName(columns[i].v) : i \in {j \in DOMAIN columns :
                                                  ~SaTypeOk(ColTypeName(columns[j].v))}}
        ELSE IF action = "add_column" /\ given.t = "str"
        THEN {n \in {Get(payload, "data_type", PStr("text")).v} : ~SaTypeOk(n)}
        ELSE {}

\* C25: a create_table or add_column that names a column type outside the
\* closed vocabulary fails with the unsupported-type error, and the store and
\* the translator's table metadata are as before the call, also when the bad
\* type is on a later column.
C25_BadTypeFailsBeforeDdl ==
    [][(called'.op = "pg_tool" /\ OutsideVocabulary(called'.payload) # {}) =>
          /\ ~called'.ok
          /\ \E n \in OutsideVocabulary(called'.payload) : called'.exc = SaTypeError(n)
          /\ db' = db
          /\ md' = md]_vars

\* a create_table whose second column has the bad type failed, and table t
\* was not created
C25_Witness ==
    /\ called.op = "pg_tool"
    /\ Get(called.payload, "action", PNone).v = "create_table"
    /\ Len(Get(called.payload, "columns", PList(<<>>)).v) = 2
    /\ SaTypeOk(ColTypeName(called.payload["columns"].v[1].v))
    /\ ~SaTypeOk(ColTypeName(called.payload["columns"].v[2].v))
    /\ ~called.ok
    /\ called.exc.cls = "ValueError"
    /\ "t" \notin DOMAIN db
    /\ "t" \notin DOMAIN md

\* ------------------------------------------- app.py: the WebSocket endpoint
\* Requests one connection sends before it goes away.
MaxRequests == 2
\* Requests of one connection that carry a prompt.
MaxPrompts == 1

\* characters str.isspace holds for
Whitespace == {" ", "\n", "\t"}

\* _chunk_tokens(text): the text cut after every whitespace character, the
\* whitespace kept at the end of its token. An element of a text is taken as
\* one character.
RECURSIVE ChunkFrom(_, _, _, _)
ChunkFrom(text, i, current, tokens) ==
    IF i > Len(text)
    THEN IF current # <<>> THEN Append(tokens, current) ELSE tokens
    ELSE IF text[i] \in Whitespace
    THEN ChunkFrom(text, i + 1, <<>>, Append(tokens, Append(current, text[i])))
    ELSE ChunkFrom(text, i + 1, Append(current, text[i]), tokens)

_chunk_tokens(text) == ChunkFrom(text, 1, <<>>, <<>>)

\* the JSON messages the handler sends
ErrorEnvelope(message) == [type |-> "error", message |-> message]

TokenEnvelope(tok) == [type |-> "token", token |-> tok]

ToolEnvelope(evt) == [type |-> "tool", event |-> evt]

DoneEnvelope == [type |-> "done"]

\* the prompt a client of the socket sends
WsPrompts == {<<"S", "h", "o", "w", " ", "t">>}

\* the JSON objects a client sends: without prompt, with an empty one, with one
WsRequests ==
    {EmptyDict, [prompt |-> <<>>]} \cup {[prompt |-> prompt] : prompt \in WsPrompts}

\* data.get("prompt", "")
PromptIn(data) == Get(data, "prompt", <<>>)

\* a test for the key in the place of `not prompt`
Missing_only_absent(data) == "prompt" \notin DOMAIN data

\* `not prompt`
Missing(data) == PromptIn(data) = <<>>

\* One pass of the loop up to the call of the agent: receive_json, then either
\* the "Prompt missing" envelope and `continue`, or agent.chat(prompt) up to
\* workflow.ainvoke on a fresh AgentState.
WsReceive ==
    /\ ws.at = "receive"
    /\ ws.requests < MaxRequests
    /\ \E data \in WsRequests :
          IF Missing(data)
          THEN /\ ws' = [ws EXCEPT !.data = data,
                                   !.sent = <<ErrorEnvelope(<<"Prompt missing">>)>>,
                                   !.requests = @ + 1,
                                   !.missed = @ + 1]
               /\ UNCHANGED turn
          ELSE /\ ws.prompts < MaxPrompts
               /\ ws' = [ws EXCEPT !.at = "chat",
                                   !.data = data,
                                   !.sent = <<>>,
                                   !.requests = @ + 1,
                                   !.prompts = @ + 1]
               /\ messages' = SeedMessages(PromptIn(data), db)
               /\ read_only' = ReadOnlyFor(PromptIn(data))
               /\ pc' = "agent"
               /\ step' = 0
               /\ invoked' = <<>>
               /\ returned' = <<>>
               /\ raised' = None
               /\ emitted' = 0
               /\ UNCHANGED <<db, md, _events>>
    /\ UNCHANGED <<registry, called, reflected>>

\* agent.chat returned: the tokens of the response, the tool events and "done"
WsReply ==
    /\ ws.at = "chat"
    /\ pc = "TERMINAL"
    /\ ws' = [ws EXCEPT
                !.at = "receive",
                !.sent = [i \in DOMAIN _chunk_tokens(returned[1]) |->
                            TokenEnvelope(_chunk_tokens(returned[1])[i])]
                         \o [i \in DOMAIN _events |-> ToolEnvelope(_events[i])]
                         \o <<DoneEnvelope>>]
    /\ UNCHANGED <<turn, registry, called, reflected>>

\* agent.chat raised: `except Exception` logs the traceback and closes the
\* socket; a CancelledError passes the handler and ends the connection as well
WsCrash ==
    /\ ws.at = "chat"
    /\ pc = "FAILED"
    /\ ws' = [ws EXCEPT !.at = "closed"]
    /\ UNCHANGED <<turn, registry, called, reflected>>

\* the client goes away while the handler waits: WebSocketDisconnect, return
WsDisconnect ==
    /\ ws.at = "receive"
    /\ ws' = [ws EXCEPT !.at = "closed"]
    /\ UNCHANGED <<turn, registry, called, reflected>>

NextWs ==
    \/ WsReceive \/ AgentNode \/ ModelFails \/ ToolNode \/ OutOfSteps
    \/ WsReply \/ WsCrash \/ WsDisconnect

SpecWs == Init /\ [][NextWs]_vars

\* ----------------------------------------------------------------- C26
\* C26: when agent.chat raises while a prompt is served, the handler sends an
\* envelope of type "error" whose message holds the exception text, then a
\* message of type "done".
C26_ExceptionSendsErrorThenDone ==
    [][(ws.at = "chat" /\ pc = "FAILED" /\ ws' # ws) =>
          /\ Len(ws'.sent) = 2
          /\ ws'.sent[1].type = "error"
          /\ \E k \in DOMAIN ws'.sent[1].message : ws'.sent[1].message[k] = raised
          /\ ws'.sent[2].type = "done"]_vars

\* ----------------------------------------------------------------- C27
\* C27: a request without prompt or with an empty one is answered first with
\* an envelope of type "error" whose message holds "Prompt missing", the
\* agent is not invoked for it, whatever follows for the request is of type
\* "done", and the handler waits for the next request.
C27_MissingPromptAnswered ==
    [][(ws'.requests = ws.requests + 1 /\ PromptIn(ws'.data) = <<>>) =>
          /\ ws'.sent # <<>>
          /\ ws'.sent[1].type = "error"
          /\ \E k \in DOMAIN ws'.sent[1].message : ws'.sent[1].message[k] = "Prompt missing"
          /\ \A i \in 2..Len(ws'.sent) : ws'.sent[i].type = "done"
          /\ UNCHANGED turn
          /\ ws'.prompts = ws.prompts
          /\ ws'.at = "receive"]_vars

\* a request with a prompt was served to its "done" on a connection that had
\* answered a request with an empty prompt before
C27_Witness ==
    /\ ws.missed > 0
    /\ ws.prompts = 1
    /\ ws.data # EmptyDict
    /\ PromptIn(ws.data) # <<>>
    /\ ws.at = "receive"
    /\ ws.sent # <<>>
    /\ Last(ws.sent).type = "done"

\* ----------------------------------------------------------------- C28
\* the latest call was a create_table
CreateCall(c) ==
    /\ PayloadOf(c) # <<>>
    /\ Get(PayloadOf(c)[1], "action", PNone).v = "create_table"
    /\ OutsideVocabulary(PayloadOf(c)[1]) = {}

\* C28: create_table succeeds whenever the store lacks the table, whatever
\* the translator instance did before, and it does not fail for a table that
\* exists; either way the store holds the table afterwards.
C28_CreateTableSucceeds ==
    [][CreateCall(called') =>
          /\ called'.ok
          /\ "t" \in DOMAIN db']_vars

\* ----------------------------------------------------------------- C29
\* the prompt the turn was seeded with
SeededPrompt(msgs) == msgs[CHOOSE i \in DOMAIN msgs : msgs[i].type = "human"].content

\* C29: within a turn the message sequence only grows at its end: after every
\* model call and every tool-dispatch step the sequence before the step is a
\* prefix of the one after it, a model call that returns appends exactly one
\* message, and read_only keeps the value the turn was seeded with.
C29_MessagesAppendOnly ==
    [][pc # "idle" =>
          /\ Len(messages') >= Len(messages)
          /\ SubSeq(messages', 1, Len(messages)) = messages
          /\ (pc = "agent" /\ pc' \in {"tools", "TERMINAL"}) =>
                /\ Len(messages') = Len(messages) + 1
                /\ Last(messages').type = "ai"
          /\ (pc = "tools" /\ pc' = "agent") =>
                \A i \in (Len(messages) + 1)..Len(messages') : messages'[i].type = "tool"
          /\ read_only' = read_only
          /\ read_only' = ReadOnlyFor(SeededPrompt(messages'))]_vars

\* a read-only turn in which a model call and a dispatch step have both added
\* to the seeded messages
C29_Witness ==
    /\ pc = "agent"
    /\ read_only
    /\ step = 2
    /\ IsResult(Len(messages))
    /\ \E i \in DOMAIN messages : messages[i].type = "system"

\* ----------------------------------------------------------------- C30
RECURSIVE Succeeded(_, _, _, _, _)
\* for the calls from k on, in order: whether the call dispatched successfully
\* on the store as the calls before it left it
Succeeded(tool_calls, k, ro, d, m) ==
    IF k > Len(tool_calls) THEN <<>>
    ELSE LET Then(try) ==
                 <<try.out.ok>> \o Succeeded(tool_calls, k + 1, ro, try.out.db, try.out.md)
         IN  Then(Attempt(tool_calls[k], ro, d, m))

\* the results of the latest batch: the tool results at the end of msgs
RECURSIVE LatestResults(_)
LatestResults(msgs) ==
    IF msgs = <<>> \/ Last(msgs).type # "tool" THEN <<>>
    ELSE Append(LatestResults(SubSeq(msgs, 1, Len(msgs) - 1)), Last(msgs))

\* a tool result that carries the value a handler returned
CarriesResult(msg) == msg.type = "tool" /\ msg.content.data.t \in {"dict", "list"}

\* C30: the result message of a call that dispatched successfully carries the
\* handler's value and is never classified as an error by the route step; and
\* when every result of the latest batch is such a message, tool-call
\* requests in the model's next message are routed to dispatch.
C30_SuccessNeverStopsTheLoop ==
    [][/\ (pc = "tools" /\ pc' = "agent") =>
            \A k \in DOMAIN Succeeded(CallsOf(Last(messages), step + 1), 1, read_only, db, md) :
               Succeeded(CallsOf(Last(messages), step + 1), 1, read_only, db, md)[k] =>
                  /\ CarriesResult(messages'[Len(messages) + k])
                  /\ ~IsErrorContent(messages'[Len(messages) + k].content)
       /\ (/\ pc = "agent"
           /\ LatestResults(messages) # <<>>
           /\ \A i \in DOMAIN LatestResults(messages) : CarriesResult(LatestResults(messages)[i])
           /\ Len(messages') = Len(messages) + 1
           /\ BearsCalls(Last(messages'))) =>
             pc' = "tools"]_vars

\* after a batch of two calls that both succeeded the model asked for more
\* and the turn is at the tools node again
C30_Witness ==
    /\ pc = "tools"
    /\ Len(messages) >= 4
    /\ BearsCalls(Last(messages))
    /\ Len(LatestResults(SubSeq(messages, 1, Len(messages) - 1))) = 2
    /\ \A i \in 1..2 :
          CarriesResult(LatestResults(SubSeq(messages, 1, Len(messages) - 1))[i])

====
